---- MODULE Spec2Model ----
(***************************************************************************)
(* Audiobookshelf MCP server: the tool handlers of main.go, the            *)
(* configuration resolver and the transport functions absGET / absPOST.    *)
(*                                                                         *)
(* Go strings and byte slices are sequences of one-character strings, so   *)
(* that TrimSuffix, Split, TrimSpace, Sprintf and substring tests are      *)
(* computed, not assumed.  An invocation is split at httpClient.Do: the    *)
(* handler action runs the handler up to the outbound request, the         *)
(* httpClientDo* actions deliver the outcome of the request and run the    *)
(* rest of the handler, Return hands the result to the hosting protocol.   *)
(***************************************************************************)
EXTENDS Integers, Sequences, FiniteSets, TLC

VARIABLES env, pc, call, ctx, locals, wire, reply, ret, passed

vars == <<env, pc, call, ctx, locals, wire, reply, ret, passed>>

(***************************************************************************)
(* Bounds of the model.                                                    *)
(***************************************************************************)
\* concurrent invocations the hosting protocol may have in flight
NumProcs == 2
\* boolean flag arguments present in one argument bag
MaxFlagArgs == 2

Procs == 1 .. NumProcs

(***************************************************************************)
(* Strings.                                                                *)
(***************************************************************************)
\* the empty map / argument bag
NoArgs == [k \in {} |-> k]

RECURSIVE Concat(_)
Concat(ss) == IF ss = <<>> THEN <<>> ELSE Head(ss) \o Concat(Tail(ss))

HasPrefix(s, prefix) ==
  /\ Len(prefix) <= Len(s)
  /\ SubSeq(s, 1, Len(prefix)) = prefix

HasSuffix(s, suffix) ==
  /\ Len(suffix) <= Len(s)
  /\ SubSeq(s, Len(s) - Len(suffix) + 1, Len(s)) = suffix

\* strings.Contains
Contains(s, sub) ==
  \E i \in 0 .. (Len(s) - Len(sub)) : SubSeq(s, i + 1, i + Len(sub)) = sub

\* mutant: every trailing occurrence of suffix is removed
RECURSIVE TrimSuffix_All(_, _)
TrimSuffix_All(s, suffix) ==
  IF suffix # <<>> /\ HasSuffix(s, suffix)
  THEN TrimSuffix_All(SubSeq(s, 1, Len(s) - Len(suffix)), suffix)
  ELSE s

\* strings.TrimSuffix: removes one occurrence of suffix, if s ends with it
TrimSuffix(s, suffix) ==
  IF HasSuffix(s, suffix) THEN SubSeq(s, 1, Len(s) - Len(suffix)) ELSE s

IsSpace(c) == c \in {" ", "\n", "\t", "\r"}

RECURSIVE TrimLeft(_)
TrimLeft(s) == IF s # <<>> /\ IsSpace(Head(s)) THEN TrimLeft(Tail(s)) ELSE s

RECURSIVE TrimRight(_)
TrimRight(s) ==
  IF s # <<>> /\ IsSpace(s[Len(s)]) THEN TrimRight(SubSeq(s, 1, Len(s) - 1)) ELSE s

\* strings.TrimSpace
TrimSpace(s) == TrimRight(TrimLeft(s))

\* strings.Split(s, sep) for a one-character separator: always Count(sep)+1 pieces
RECURSIVE SplitFrom(_, _, _)
SplitFrom(s, sep, cur) ==
  IF s = <<>> THEN <<cur>>
  ELSE IF Head(s) = sep THEN <<cur>> \o SplitFrom(Tail(s), sep, <<>>)
  ELSE SplitFrom(Tail(s), sep, Append(cur, Head(s)))

Split(s, sep) == SplitFrom(s, sep, <<>>)

\* fmt.Sprintf / fmt.Errorf for formats whose verbs are %s and %w
RECURSIVE Sprintf(_, _)
Sprintf(format, a) ==
  IF format = <<>> THEN <<>>
  ELSE IF Len(format) >= 2 /\ format[1] = "%" /\ format[2] \in {"s", "w"}
       THEN (IF a = <<>> THEN <<"%", "!", "s", "(", "M", "I", "S", "S", "I", "N", "G", ")">> ELSE Head(a))
            \o Sprintf(SubSeq(format, 3, Len(format)), IF a = <<>> THEN a ELSE Tail(a))
  ELSE <<format[1]>> \o Sprintf(Tail(format), a)

Digit(d) == <<"0", "1", "2", "3", "4", "5", "6", "7", "8", "9">>[d + 1]

\* strconv.Itoa for naturals
RECURSIVE Itoa(_)
Itoa(n) == IF n < 10 THEN <<Digit(n)>> ELSE Itoa(n \div 10) \o <<Digit(n % 10)>>

\* strconv.Quote for the characters of the model's alphabet (%q)
RECURSIVE QuoteBody(_)
QuoteBody(s) ==
  IF s = <<>> THEN <<>>
  ELSE (CASE Head(s) = "\"" -> <<"\\", "\"">>
          [] Head(s) = "\\" -> <<"\\", "\\">>
          [] Head(s) = "\n" -> <<"\\", "n">>
          [] Head(s) = "\t" -> <<"\\", "t">>
          [] Head(s) = "\r" -> <<"\\", "r">>
          [] OTHER -> <<Head(s)>>) \o QuoteBody(Tail(s))

Quote(s) == <<"\"">> \o QuoteBody(s) \o <<"\"">>

(***************************************************************************)
(* Errors and tool results.                                                *)
(***************************************************************************)
NilErr == [isNil |-> TRUE, msg |-> <<>>]

\* fmt.Errorf(format, a...)
Errorf(format, a) == [isNil |-> FALSE, msg |-> Sprintf(format, a)]

\* mcp.NewToolResultError(text)
NewToolResultError(text) == [IsError |-> TRUE, Text |-> text]

\* mcp.NewToolResultText(text)
NewToolResultText(text) == [IsError |-> FALSE, Text |-> text]

\* string(body): the bytes of the slice, unchanged
String(body) == body

(***************************************************************************)
(* Argument names (the text of each name, as %q and path suffixes use it). *)
(***************************************************************************)
NameText(k) ==
  CASE k = "base_url" -> <<"b", "a", "s", "e", "_", "u", "r", "l">>
    [] k = "token" -> <<"t", "o", "k", "e", "n">>
    [] k = "library_id" -> <<"l", "i", "b", "r", "a", "r", "y", "_", "i", "d">>
    [] k = "item_id" -> <<"i", "t", "e", "m", "_", "i", "d">>
    [] k = "author_id" -> <<"a", "u", "t", "h", "o", "r", "_", "i", "d">>
    [] k = "session_id" -> <<"s", "e", "s", "s", "i", "o", "n", "_", "i", "d">>
    [] k = "podcast_id" -> <<"p", "o", "d", "c", "a", "s", "t", "_", "i", "d">>
    [] k = "collection_id" -> <<"c", "o", "l", "l", "e", "c", "t", "i", "o", "n", "_", "i", "d">>
    [] k = "playlist_id" -> <<"p", "l", "a", "y", "l", "i", "s", "t", "_", "i", "d">>
    [] k = "user_id" -> <<"u", "s", "e", "r", "_", "i", "d">>
    [] k = "series_id" -> <<"s", "e", "r", "i", "e", "s", "_", "i", "d">>
    [] k = "book_id" -> <<"b", "o", "o", "k", "_", "i", "d">>
    [] k = "episode_id" -> <<"e", "p", "i", "s", "o", "d", "e", "_", "i", "d">>
    [] k = "progress_item_id" -> <<"p", "r", "o", "g", "r", "e", "s", "s", "_", "i", "t", "e", "m", "_", "i", "d">>
    [] k = "progress_episode_id" -> <<"p", "r", "o", "g", "r", "e", "s", "s", "_", "e", "p", "i", "s", "o", "d", "e", "_", "i", "d">>
    [] k = "name" -> <<"n", "a", "m", "e">>
    [] k = "folders" -> <<"f", "o", "l", "d", "e", "r", "s">>
    [] k = "media_type" -> <<"m", "e", "d", "i", "a", "_", "t", "y", "p", "e">>
    [] k = "icon" -> <<"i", "c", "o", "n">>
    [] k = "provider" -> <<"p", "r", "o", "v", "i", "d", "e", "r">>
    [] k = "description" -> <<"d", "e", "s", "c", "r", "i", "p", "t", "i", "o", "n">>
    [] k = "progress" -> <<"p", "r", "o", "g", "r", "e", "s", "s">>
    [] k = "duration" -> <<"d", "u", "r", "a", "t", "i", "o", "n">>
    [] k = "is_finished" -> <<"i", "s", "_", "f", "i", "n", "i", "s", "h", "e", "d">>
    [] k = "items" -> <<"i", "t", "e", "m", "s">>
    [] k = "authors" -> <<"a", "u", "t", "h", "o", "r", "s">>
    [] k = "series" -> <<"s", "e", "r", "i", "e", "s">>
    [] k = "collections" -> <<"c", "o", "l", "l", "e", "c", "t", "i", "o", "n", "s">>
    [] k = "playlists" -> <<"p", "l", "a", "y", "l", "i", "s", "t", "s">>
    [] k = "personalized" -> <<"p", "e", "r", "s", "o", "n", "a", "l", "i", "z", "e", "d">>
    [] k = "filterdata" -> <<"f", "i", "l", "t", "e", "r", "d", "a", "t", "a">>
    [] k = "stats" -> <<"s", "t", "a", "t", "s">>
    [] k = "search" -> <<"s", "e", "a", "r", "c", "h">>
    [] k = "episode-downloads" -> <<"e", "p", "i", "s", "o", "d", "e", "-", "d", "o", "w", "n", "l", "o", "a", "d", "s">>
    [] k = "recent-episodes" -> <<"r", "e", "c", "e", "n", "t", "-", "e", "p", "i", "s", "o", "d", "e", "s">>
    [] k = "cover" -> <<"c", "o", "v", "e", "r">>
    [] k = "tone-object" -> <<"t", "o", "n", "e", "-", "o", "b", "j", "e", "c", "t">>
    [] k = "listening-sessions" -> <<"l", "i", "s", "t", "e", "n", "i", "n", "g", "-", "s", "e", "s", "s", "i", "o", "n", "s">>
    [] k = "listening-stats" -> <<"l", "i", "s", "t", "e", "n", "i", "n", "g", "-", "s", "t", "a", "t", "s">>
    [] k = "items-in-progress" -> <<"i", "t", "e", "m", "s", "-", "i", "n", "-", "p", "r", "o", "g", "r", "e", "s", "s">>
    [] k = "feed" -> <<"f", "e", "e", "d">>
    [] k = "opml" -> <<"o", "p", "m", "l">>
    [] k = "downloads" -> <<"d", "o", "w", "n", "l", "o", "a", "d", "s">>
    [] k = "search-episode" -> <<"s", "e", "a", "r", "c", "h", "-", "e", "p", "i", "s", "o", "d", "e">>

(***************************************************************************)
(* The argument accessors of mcp.CallToolRequest, as the handlers use      *)
(* them.  An argument bag is a function from the names present to values.  *)
(***************************************************************************)
\* request.GetString(key, def): the argument, def when absent
GetString(request, key, def) == IF key \in DOMAIN request THEN request[key] ELSE def

\* request.GetBool(key, def)
GetBool(request, key, def) == IF key \in DOMAIN request THEN request[key] ELSE def

\* request.GetFloat(key, def)
GetFloat(request, key, def) == IF key \in DOMAIN request THEN request[key] ELSE def

\* request.RequireString(key): an error only when the key is not among the
\* arguments; a present empty string is returned as it is
RequireString(request, key) ==
  IF key \in DOMAIN request
  THEN [val |-> request[key], err |-> NilErr]
  ELSE [val |-> <<>>,
        err |-> [isNil |-> FALSE,
                 msg |-> Concat(<<<<"r", "e", "q", "u", "i", "r", "e", "d", " ", "a", "r", "g", "u", "m", "e", "n", "t", " ">>, Quote(NameText(key)), <<" ", "n", "o", "t", " ", "f", "o", "u", "n", "d">>>>)]]

\* request.RequireFloat(key)
RequireFloat(request, key) ==
  IF key \in DOMAIN request
  THEN [val |-> request[key], err |-> NilErr]
  ELSE [val |-> 0,
        err |-> [isNil |-> FALSE,
                 msg |-> Concat(<<<<"r", "e", "q", "u", "i", "r", "e", "d", " ", "a", "r", "g", "u", "m", "e", "n", "t", " ">>, Quote(NameText(key)), <<" ", "n", "o", "t", " ", "f", "o", "u", "n", "d">>>>)]]

(***************************************************************************)
(* Configuration resolver.                                                 *)
(***************************************************************************)
\* os.Getenv: "" for an unset variable
Getenv(envKey) == env[envKey]

\* mutant: the environment variable wins over the argument
getEnvOrParam_EnvFirst(paramValue, envKey) ==
  IF Getenv(envKey) # <<>> THEN Getenv(envKey) ELSE paramValue

getEnvOrParam(paramValue, envKey) ==
  IF paramValue # <<>> THEN paramValue ELSE Getenv(envKey)

MsgBaseURLRequired == <<"b", "a", "s", "e", "_", "u", "r", "l", " ", "p", "a", "r", "a", "m", "e", "t", "e", "r", " ", "o", "r", " ", "A", "B", "S", "_", "B", "A", "S", "E", "_", "U", "R", "L", " ", "e", "n", "v", "i", "r", "o", "n", "m", "e", "n", "t", " ", "v", "a", "r", "i", "a", "b", "l", "e", " ", "i", "s", " ", "r", "e", "q", "u", "i", "r", "e", "d">>

MsgTokenRequired == <<"t", "o", "k", "e", "n", " ", "p", "a", "r", "a", "m", "e", "t", "e", "r", " ", "o", "r", " ", "A", "B", "S", "_", "A", "P", "I", "_", "K", "E", "Y", " ", "e", "n", "v", "i", "r", "o", "n", "m", "e", "n", "t", " ", "v", "a", "r", "i", "a", "b", "l", "e", " ", "i", "s", " ", "r", "e", "q", "u", "i", "r", "e", "d">>

\* mutant: the two messages exchanged
getABSConfig_SwappedMessages(request) ==
  LET baseURLParam == GetString(request, "base_url", <<>>)
      tokenParam == GetString(request, "token", <<>>)
      baseURL == getEnvOrParam(baseURLParam, "ABS_BASE_URL")
      token == getEnvOrParam(tokenParam, "ABS_API_KEY")
  IN IF baseURL = <<>>
     THEN [baseURL |-> <<>>, token |-> <<>>, err |-> Errorf(MsgTokenRequired, <<>>)]
     ELSE IF token = <<>>
     THEN [baseURL |-> <<>>, token |-> <<>>, err |-> Errorf(MsgBaseURLRequired, <<>>)]
     ELSE [baseURL |-> Sprintf(<<"%", "s", "/", "a", "p", "i">>, <<baseURL>>), token |-> token, err |-> NilErr]

\* mutant: /api is not appended
getABSConfig_NoSuffix(request) ==
  LET baseURLParam == GetString(request, "base_url", <<>>)
      tokenParam == GetString(request, "token", <<>>)
      baseURL == getEnvOrParam(baseURLParam, "ABS_BASE_URL")
      token == getEnvOrParam(tokenParam, "ABS_API_KEY")
  IN IF baseURL = <<>>
     THEN [baseURL |-> <<>>, token |-> <<>>, err |-> Errorf(MsgBaseURLRequired, <<>>)]
     ELSE IF token = <<>>
     THEN [baseURL |-> <<>>, token |-> <<>>, err |-> Errorf(MsgTokenRequired, <<>>)]
     ELSE [baseURL |-> baseURL, token |-> token, err |-> NilErr]

\* mutant: a trailing slash of the base is trimmed before /api is appended
getABSConfig_TrimmedBase(request) ==
  LET baseURLParam == GetString(request, "base_url", <<>>)
      tokenParam == GetString(request, "token", <<>>)
      baseURL == getEnvOrParam(baseURLParam, "ABS_BASE_URL")
      token == getEnvOrParam(tokenParam, "ABS_API_KEY")
  IN IF baseURL = <<>>
     THEN [baseURL |-> <<>>, token |-> <<>>, err |-> Errorf(MsgBaseURLRequired, <<>>)]
     ELSE IF token = <<>>
     THEN [baseURL |-> <<>>, token |-> <<>>, err |-> Errorf(MsgTokenRequired, <<>>)]
     ELSE [baseURL |-> Sprintf(<<"%", "s", "/", "a", "p", "i">>, <<TrimSuffix(baseURL, <<"/">>)>>), token |-> token,
           err |-> NilErr]

getABSConfig(request) ==
  LET baseURLParam == GetString(request, "base_url", <<>>)
      tokenParam == GetString(request, "token", <<>>)
      baseURL == getEnvOrParam(baseURLParam, "ABS_BASE_URL")
      token == getEnvOrParam(tokenParam, "ABS_API_KEY")
  IN IF baseURL = <<>>
     THEN [baseURL |-> <<>>, token |-> <<>>, err |-> Errorf(MsgBaseURLRequired, <<>>)]
     ELSE IF token = <<>>
     THEN [baseURL |-> <<>>, token |-> <<>>, err |-> Errorf(MsgTokenRequired, <<>>)]
     ELSE [baseURL |-> Sprintf(<<"%", "s", "/", "a", "p", "i">>, <<baseURL>>), token |-> token, err |-> NilErr]

(***************************************************************************)
(* json.Marshal of the payloads the write handlers build.  A value is      *)
(* tagged with its Go type; a map is marshalled with its keys sorted.      *)
(***************************************************************************)
JStr(s) == [t |-> "string", v |-> s]

JNum(n) == [t |-> "number", v |-> n]

JBool(b) == [t |-> "bool", v |-> b]

JList(l) == [t |-> "list", v |-> l]

JMap(m) == [t |-> "map", v |-> m]

\* the keys of all payloads, in the byte order json.Marshal sorts them in
JSONKeyOrder ==
  <<"currentTime", "description", "duration", "episodeId", "folders", "fullPath",
    "icon", "id", "isFinished", "libraryId", "libraryItemId", "mediaType", "name",
    "provider">>

KeyText(k) ==
  CASE k = "currentTime" -> <<"c", "u", "r", "r", "e", "n", "t", "T", "i", "m", "e">>
    [] k = "description" -> <<"d", "e", "s", "c", "r", "i", "p", "t", "i", "o", "n">>
    [] k = "duration" -> <<"d", "u", "r", "a", "t", "i", "o", "n">>
    [] k = "episodeId" -> <<"e", "p", "i", "s", "o", "d", "e", "I", "d">>
    [] k = "folders" -> <<"f", "o", "l", "d", "e", "r", "s">>
    [] k = "fullPath" -> <<"f", "u", "l", "l", "P", "a", "t", "h">>
    [] k = "icon" -> <<"i", "c", "o", "n">>
    [] k = "id" -> <<"i", "d">>
    [] k = "isFinished" -> <<"i", "s", "F", "i", "n", "i", "s", "h", "e", "d">>
    [] k = "libraryId" -> <<"l", "i", "b", "r", "a", "r", "y", "I", "d">>
    [] k = "libraryItemId" -> <<"l", "i", "b", "r", "a", "r", "y", "I", "t", "e", "m", "I", "d">>
    [] k = "mediaType" -> <<"m", "e", "d", "i", "a", "T", "y", "p", "e">>
    [] k = "name" -> <<"n", "a", "m", "e">>
    [] k = "provider" -> <<"p", "r", "o", "v", "i", "d", "e", "r">>

RECURSIVE jsonMarshal(_)
RECURSIVE jsonElems(_)
RECURSIVE jsonMembers(_, _, _)

jsonElems(l) ==
  IF l = <<>> THEN <<>>
  ELSE jsonMarshal(Head(l)) \o (IF Tail(l) = <<>> THEN <<>> ELSE <<",">>) \o jsonElems(Tail(l))

jsonMembers(m, i, first) ==
  IF i > Len(JSONKeyOrder) THEN <<>>
  ELSE IF JSONKeyOrder[i] \in DOMAIN m
       THEN (IF first THEN <<>> ELSE <<",">>)
            \o Quote(KeyText(JSONKeyOrder[i])) \o <<":">> \o jsonMarshal(m[JSONKeyOrder[i]])
            \o jsonMembers(m, i + 1, FALSE)
       ELSE jsonMembers(m, i + 1, first)

jsonMarshal(x) ==
  CASE x.t = "string" -> Quote(x.v)
    [] x.t = "number" -> Itoa(x.v)
    [] x.t = "bool" -> (IF x.v THEN <<"t", "r", "u", "e">> ELSE <<"f", "a", "l", "s", "e">>)
    [] x.t = "list" -> <<"[">> \o jsonElems(x.v) \o <<"]">>
    [] x.t = "map" -> <<"{">> \o jsonMembers(x.v, 1, TRUE) \o <<"}">>

(***************************************************************************)
(* Transport: absGET and absPOST, each split at httpClient.Do.             *)
(***************************************************************************)
\* a nil payload (interface{}(nil)) and a nil request body
NilPayload == [isNil |-> TRUE, v |-> JMap(NoArgs)]

Payload(m) == [isNil |-> FALSE, v |-> JMap(m)]

NoBody == [present |-> FALSE, bytes |-> <<>>]

NoReq == [method |-> "", url |-> <<>>, header |-> NoArgs, body |-> NoBody]

IsCTL(c) == c \in {"\n", "\t", "\r"}

\* url.Parse, called by http.NewRequestWithContext: a control character in
\* the URL is rejected
urlParseErr(rawURL) ==
  IF \E i \in 1 .. Len(rawURL) : IsCTL(rawURL[i])
  THEN [isNil |-> FALSE,
        msg |-> Concat(<<<<"p", "a", "r", "s", "e", " ">>, Quote(rawURL), <<":", " ", "n", "e", "t", "/", "u", "r", "l", ":", " ", "i", "n", "v", "a", "l", "i", "d", " ", "c", "o", "n", "t", "r", "o", "l", " ", "c", "h", "a", "r", "a", "c", "t", "e", "r", " ", "i", "n", " ", "U", "R", "L">>>>)]
  ELSE NilErr

\* absGET up to httpClient.Do: the request it sends, or the error it returns
absGETRequest(baseURL, token, path) ==
  LET fullURL == TrimSuffix(baseURL, <<"/">>) \o path
      perr == urlParseErr(fullURL)
  IN IF ~perr.isNil
     THEN [req |-> NoReq, err |-> Errorf(<<"b", "u", "i", "l", "d", " ", "r", "e", "q", "u", "e", "s", "t", ":", " ", "%", "w">>, <<perr.msg>>)]
     ELSE [req |-> [method |-> "GET",
                    url |-> fullURL,
                    header |-> IF token # <<>>
                               THEN ("Authorization" :> (<<"B", "e", "a", "r", "e", "r", " ">> \o token))
                               ELSE NoArgs,
                    body |-> NoBody],
           err |-> NilErr]

\* mutant: absPOST sends a PUT
absPOSTRequest_Put(baseURL, token, path, payload) ==
  LET fullURL == TrimSuffix(baseURL, <<"/">>) \o path
      bodyReader == IF ~payload.isNil
                    THEN [present |-> TRUE, bytes |-> jsonMarshal(payload.v)]
                    ELSE NoBody
      perr == urlParseErr(fullURL)
  IN IF ~perr.isNil
     THEN [req |-> NoReq, err |-> Errorf(<<"b", "u", "i", "l", "d", " ", "r", "e", "q", "u", "e", "s", "t", ":", " ", "%", "w">>, <<perr.msg>>)]
     ELSE [req |-> [method |-> "PUT",
                    url |-> fullURL,
                    header |-> (IF token # <<>>
                                THEN ("Authorization" :> (<<"B", "e", "a", "r", "e", "r", " ">> \o token))
                                ELSE NoArgs)
                               @@ ("Content-Type" :> <<"a", "p", "p", "l", "i", "c", "a", "t", "i", "o", "n", "/", "j", "s", "o", "n">>),
                    body |-> bodyReader],
           err |-> NilErr]

\* mutant: absPOST sends no Authorization header
absPOSTRequest_NoAuthorization(baseURL, token, path, payload) ==
  LET fullURL == TrimSuffix(baseURL, <<"/">>) \o path
      bodyReader == IF ~payload.isNil
                    THEN [present |-> TRUE, bytes |-> jsonMarshal(payload.v)]
                    ELSE NoBody
      perr == urlParseErr(fullURL)
  IN IF ~perr.isNil
     THEN [req |-> NoReq, err |-> Errorf(<<"b", "u", "i", "l", "d", " ", "r", "e", "q", "u", "e", "s", "t", ":", " ", "%", "w">>, <<perr.msg>>)]
     ELSE [req |-> [method |-> "POST",
                    url |-> fullURL,
                    header |-> ("Content-Type" :> <<"a", "p", "p", "l", "i", "c", "a", "t", "i", "o", "n", "/", "j", "s", "o", "n">>),
                    body |-> bodyReader],
           err |-> NilErr]

\* absPOST up to httpClient.Do
absPOSTRequest(baseURL, token, path, payload) ==
  LET fullURL == TrimSuffix(baseURL, <<"/">>) \o path
      bodyReader == IF ~payload.isNil
                    THEN [present |-> TRUE, bytes |-> jsonMarshal(payload.v)]
                    ELSE NoBody
      perr == urlParseErr(fullURL)
  IN IF ~perr.isNil
     THEN [req |-> NoReq, err |-> Errorf(<<"b", "u", "i", "l", "d", " ", "r", "e", "q", "u", "e", "s", "t", ":", " ", "%", "w">>, <<perr.msg>>)]
     ELSE [req |-> [method |-> "POST",
                    url |-> fullURL,
                    header |-> (IF token # <<>>
                                THEN ("Authorization" :> (<<"B", "e", "a", "r", "e", "r", " ">> \o token))
                                ELSE NoArgs)
                               @@ ("Content-Type" :> <<"a", "p", "p", "l", "i", "c", "a", "t", "i", "o", "n", "/", "j", "s", "o", "n">>),
                    body |-> bodyReader],
           err |-> NilErr]

\* io.ReadAll(resp.Body): the bytes that arrived, and the error that stopped
\* the read, if any
ReadAll(resp) == [data |-> SubSeq(resp.Body, 1, resp.arrived), err |-> resp.readErr]

NoResp ==
  [StatusCode |-> 0, Status |-> <<>>, Body |-> <<>>, arrived |-> 0, readErr |-> NilErr]

\* mutant: the upper bound of the status check is off by one
absGETResponse_OffByOne(do) ==
  IF ~do.err.isNil
  THEN [body |-> <<>>, err |-> Errorf(<<"c", "a", "l", "l", " ", "A", "B", "S", " ", "A", "P", "I", ":", " ", "%", "w">>, <<do.err.msg>>)]
  ELSE IF do.resp.StatusCode < 200 \/ do.resp.StatusCode > 300
  THEN [body |-> <<>>,
        err |-> Errorf(<<"A", "B", "S", " ", "A", "P", "I", " ", "r", "e", "t", "u", "r", "n", "e", "d", " ", "%", "s", ":", " ", "%", "s">>, <<do.resp.Status, String(ReadAll(do.resp).data)>>)]
  ELSE IF ~ReadAll(do.resp).err.isNil
  THEN [body |-> <<>>, err |-> Errorf(<<"r", "e", "a", "d", " ", "r", "e", "s", "p", "o", "n", "s", "e", ":", " ", "%", "w">>, <<ReadAll(do.resp).err.msg>>)]
  ELSE [body |-> ReadAll(do.resp).data, err |-> NilErr]

\* absGET from httpClient.Do on: do is what Do returned
absGETResponse(do) ==
  IF ~do.err.isNil
  THEN [body |-> <<>>, err |-> Errorf(<<"c", "a", "l", "l", " ", "A", "B", "S", " ", "A", "P", "I", ":", " ", "%", "w">>, <<do.err.msg>>)]
  ELSE IF do.resp.StatusCode < 200 \/ do.resp.StatusCode >= 300
  THEN [body |-> <<>>,
        err |-> Errorf(<<"A", "B", "S", " ", "A", "P", "I", " ", "r", "e", "t", "u", "r", "n", "e", "d", " ", "%", "s", ":", " ", "%", "s">>, <<do.resp.Status, String(ReadAll(do.resp).data)>>)]
  ELSE IF ~ReadAll(do.resp).err.isNil
  THEN [body |-> <<>>, err |-> Errorf(<<"r", "e", "a", "d", " ", "r", "e", "s", "p", "o", "n", "s", "e", ":", " ", "%", "w">>, <<ReadAll(do.resp).err.msg>>)]
  ELSE [body |-> ReadAll(do.resp).data, err |-> NilErr]

\* absPOST from httpClient.Do on
absPOSTResponse(do) ==
  IF ~do.err.isNil
  THEN [body |-> <<>>, err |-> Errorf(<<"c", "a", "l", "l", " ", "A", "B", "S", " ", "A", "P", "I", ":", " ", "%", "w">>, <<do.err.msg>>)]
  ELSE IF do.resp.StatusCode < 200 \/ do.resp.StatusCode >= 300
  THEN [body |-> <<>>,
        err |-> Errorf(<<"A", "B", "S", " ", "A", "P", "I", " ", "r", "e", "t", "u", "r", "n", "e", "d", " ", "%", "s", ":", " ", "%", "s">>, <<do.resp.Status, String(ReadAll(do.resp).data)>>)]
  ELSE IF ~ReadAll(do.resp).err.isNil
  THEN [body |-> <<>>, err |-> Errorf(<<"r", "e", "a", "d", " ", "r", "e", "s", "p", "o", "n", "s", "e", ":", " ", "%", "w">>, <<ReadAll(do.resp).err.msg>>)]
  ELSE [body |-> ReadAll(do.resp).data, err |-> NilErr]

(***************************************************************************)
(* Handlers.  A handler operator runs the handler on an argument bag up to *)
(* its return or its outbound request:                                     *)
(*   sent = FALSE: the handler returned `result` without a request;        *)
(*   sent = TRUE:  `req` went out and the handler waits in httpClient.Do.  *)
(* baseURL, token and path are the handler's locals at that point.         *)
(***************************************************************************)
NoResult == [IsError |-> FALSE, Text |-> <<>>]

NoLocals == [baseURL |-> <<>>, token |-> <<>>, path |-> <<>>]

\* return mcp.NewToolResultError(text), nil
ReturnError(text, baseURL, token, path) ==
  [sent |-> FALSE, req |-> NoReq, result |-> NewToolResultError(text), err |-> NilErr,
   baseURL |-> baseURL, token |-> token, path |-> path]

\* body, err := absGET(ctx, baseURL, token, path), up to httpClient.Do
callGET(baseURL, token, path) ==
  LET r == absGETRequest(baseURL, token, path)
  IN IF ~r.err.isNil
     THEN ReturnError(r.err.msg, baseURL, token, path)
     ELSE [sent |-> TRUE, req |-> r.req, result |-> NoResult, err |-> NilErr,
           baseURL |-> baseURL, token |-> token, path |-> path]

\* body, err := absPOST(ctx, baseURL, token, path, payload), up to httpClient.Do
callPOST(baseURL, token, path, payload) ==
  LET r == absPOSTRequest(baseURL, token, path, payload)
  IN IF ~r.err.isNil
     THEN ReturnError(r.err.msg, baseURL, token, path)
     ELSE [sent |-> TRUE, req |-> r.req, result |-> NoResult, err |-> NilErr,
           baseURL |-> baseURL, token |-> token, path |-> path]

\* mutant: the body is trimmed on its way into the result
wrapOutcome_Trimmed(r) ==
  IF ~r.err.isNil
  THEN [result |-> NewToolResultError(r.err.msg), err |-> NilErr]
  ELSE [result |-> NewToolResultText(TrimSpace(String(r.body))), err |-> NilErr]

\* mutant: a transport error is returned as the handler's error
wrapOutcome_ErrorEscapes(r) ==
  IF ~r.err.isNil
  THEN [result |-> NoResult, err |-> r.err]
  ELSE [result |-> NewToolResultText(String(r.body)), err |-> NilErr]

\* the end of every handler: if err != nil { return NewToolResultError(err.Error()), nil }
\* return NewToolResultText(string(body)), nil
wrapOutcome(r) ==
  IF ~r.err.isNil
  THEN [result |-> NewToolResultError(r.err.msg), err |-> NilErr]
  ELSE [result |-> NewToolResultText(String(r.body)), err |-> NilErr]

createSimpleGETHandler(path, request) ==
  LET cfg == getABSConfig(request)
  IN IF ~cfg.err.isNil
     THEN ReturnError(cfg.err.msg, cfg.baseURL, cfg.token, <<>>)
     ELSE callGET(cfg.baseURL, cfg.token, path)

\* mutant: the token is checked before the base URL
createRootGETHandler_TokenFirst(path, request) ==
  LET baseURLParam == GetString(request, "base_url", <<>>)
      tokenParam == GetString(request, "token", <<>>)
      baseURL == getEnvOrParam(baseURLParam, "ABS_BASE_URL")
      token == getEnvOrParam(tokenParam, "ABS_API_KEY")
  IN IF token = <<>>
     THEN ReturnError(MsgTokenRequired, baseURL, token, <<>>)
     ELSE IF baseURL = <<>>
     THEN ReturnError(MsgBaseURLRequired, baseURL, token, <<>>)
     ELSE callGET(baseURL, token, path)

\* mutant: the token is not checked
createRootGETHandler_NoTokenCheck(path, request) ==
  LET baseURLParam == GetString(request, "base_url", <<>>)
      tokenParam == GetString(request, "token", <<>>)
      baseURL == getEnvOrParam(baseURLParam, "ABS_BASE_URL")
      token == getEnvOrParam(tokenParam, "ABS_API_KEY")
  IN IF baseURL = <<>>
     THEN ReturnError(MsgBaseURLRequired, baseURL, token, <<>>)
     ELSE callGET(baseURL, token, path)

createRootGETHandler(path, request) ==
  LET baseURLParam == GetString(request, "base_url", <<>>)
      tokenParam == GetString(request, "token", <<>>)
      baseURL == getEnvOrParam(baseURLParam, "ABS_BASE_URL")
      token == getEnvOrParam(tokenParam, "ABS_API_KEY")
  IN IF baseURL = <<>>
     THEN ReturnError(MsgBaseURLRequired, baseURL, token, <<>>)
     ELSE IF token = <<>>
     THEN ReturnError(MsgTokenRequired, baseURL, token, <<>>)
     ELSE callGET(baseURL, token, path)

\* mutant: the identifier is validated before the configuration
createGETByIDHandler_ArgumentFirst(pathTemplate, idParamName, request) ==
  LET cfg == getABSConfig(request)
      id == RequireString(request, idParamName)
  IN IF ~id.err.isNil
     THEN ReturnError(id.err.msg, <<>>, <<>>, <<>>)
     ELSE IF ~cfg.err.isNil
     THEN ReturnError(cfg.err.msg, cfg.baseURL, cfg.token, <<>>)
     ELSE callGET(cfg.baseURL, cfg.token, Sprintf(pathTemplate, <<id.val>>))

createGETByIDHandler(pathTemplate, idParamName, request) ==
  LET cfg == getABSConfig(request)
      id == RequireString(request, idParamName)
  IN IF ~cfg.err.isNil
     THEN ReturnError(cfg.err.msg, cfg.baseURL, cfg.token, <<>>)
     ELSE IF ~id.err.isNil
     THEN ReturnError(id.err.msg, cfg.baseURL, cfg.token, <<>>)
     ELSE callGET(cfg.baseURL, cfg.token, Sprintf(pathTemplate, <<id.val>>))

\* mutant: no break, every true flag is appended
RECURSIVE subResourcePath_NoBreak(_, _, _)
subResourcePath_NoBreak(path, subResources, request) ==
  IF subResources = <<>> THEN path
  ELSE IF GetBool(request, Head(subResources), FALSE)
       THEN subResourcePath_NoBreak(Sprintf(<<"%", "s", "/", "%", "s">>, <<path, NameText(Head(subResources))>>),
                                    Tail(subResources), request)
       ELSE subResourcePath_NoBreak(path, Tail(subResources), request)

\* mutant: the flags are not looked at
subResourcePath_NoFlags(path, subResources, request) == path

\* mutant: a flag counts when it is present, whatever its value
RECURSIVE subResourcePath_PresentFlag(_, _, _)
subResourcePath_PresentFlag(path, subResources, request) ==
  IF subResources = <<>> THEN path
  ELSE IF Head(subResources) \in DOMAIN request
       THEN Sprintf(<<"%", "s", "/", "%", "s">>, <<path, NameText(Head(subResources))>>)
       ELSE subResourcePath_PresentFlag(path, Tail(subResources), request)

\* the loop over subResources: the first flag that is true is appended, then break
RECURSIVE subResourcePath(_, _, _)
subResourcePath(path, subResources, request) ==
  IF subResources = <<>> THEN path
  ELSE IF GetBool(request, Head(subResources), FALSE)
       THEN Sprintf(<<"%", "s", "/", "%", "s">>, <<path, NameText(Head(subResources))>>)
       ELSE subResourcePath(path, Tail(subResources), request)

createGETByIDWithSubResourceHandler(basePath, idParamName, subResources, request) ==
  LET cfg == getABSConfig(request)
      id == RequireString(request, idParamName)
  IN IF ~cfg.err.isNil
     THEN ReturnError(cfg.err.msg, cfg.baseURL, cfg.token, <<>>)
     ELSE IF ~id.err.isNil
     THEN ReturnError(id.err.msg, cfg.baseURL, cfg.token, <<>>)
     ELSE callGET(cfg.baseURL, cfg.token,
                  subResourcePath(Sprintf(basePath, <<id.val>>), subResources, request))

\* mutant: an episode identifier without an item identifier is refused
meHandler_EpisodeNeedsItem(request) ==
  LET cfg == getABSConfig(request)
      progressItemID == GetString(request, "progress_item_id", <<>>)
      progressEpisodeID == GetString(request, "progress_episode_id", <<>>)
      path == IF GetBool(request, "listening-sessions", FALSE) THEN <<"/", "m", "e", "/", "l", "i", "s", "t", "e", "n", "i", "n", "g", "-", "s", "e", "s", "s", "i", "o", "n", "s">>
              ELSE IF GetBool(request, "listening-stats", FALSE) THEN <<"/", "m", "e", "/", "l", "i", "s", "t", "e", "n", "i", "n", "g", "-", "s", "t", "a", "t", "s">>
              ELSE IF GetBool(request, "items-in-progress", FALSE) THEN <<"/", "m", "e", "/", "i", "t", "e", "m", "s", "-", "i", "n", "-", "p", "r", "o", "g", "r", "e", "s", "s">>
              ELSE IF progressItemID # <<>>
              THEN (IF progressEpisodeID # <<>>
                    THEN Sprintf(<<"/", "m", "e", "/", "p", "r", "o", "g", "r", "e", "s", "s", "/", "%", "s", "/", "%", "s">>, <<progressItemID, progressEpisodeID>>)
                    ELSE Sprintf(<<"/", "m", "e", "/", "p", "r", "o", "g", "r", "e", "s", "s", "/", "%", "s">>, <<progressItemID>>))
              ELSE <<"/", "m", "e">>
  IN IF ~cfg.err.isNil
     THEN ReturnError(cfg.err.msg, cfg.baseURL, cfg.token, <<>>)
     ELSE IF progressEpisodeID # <<>> /\ progressItemID = <<>>
     THEN ReturnError(<<"p", "r", "o", "g", "r", "e", "s", "s", "_", "i", "t", "e", "m", "_", "i", "d", " ", "i", "s", " ", "r", "e", "q", "u", "i", "r", "e", "d">>, cfg.baseURL, cfg.token, <<>>)
     ELSE callGET(cfg.baseURL, cfg.token, path)

\* mutant: the item progress is looked at before the flags
meHandler_ProgressFirst(request) ==
  LET cfg == getABSConfig(request)
      progressItemID == GetString(request, "progress_item_id", <<>>)
      progressEpisodeID == GetString(request, "progress_episode_id", <<>>)
      path == IF progressItemID # <<>>
              THEN (IF progressEpisodeID # <<>>
                    THEN Sprintf(<<"/", "m", "e", "/", "p", "r", "o", "g", "r", "e", "s", "s", "/", "%", "s", "/", "%", "s">>, <<progressItemID, progressEpisodeID>>)
                    ELSE Sprintf(<<"/", "m", "e", "/", "p", "r", "o", "g", "r", "e", "s", "s", "/", "%", "s">>, <<progressItemID>>))
              ELSE IF GetBool(request, "listening-sessions", FALSE) THEN <<"/", "m", "e", "/", "l", "i", "s", "t", "e", "n", "i", "n", "g", "-", "s", "e", "s", "s", "i", "o", "n", "s">>
              ELSE IF GetBool(request, "listening-stats", FALSE) THEN <<"/", "m", "e", "/", "l", "i", "s", "t", "e", "n", "i", "n", "g", "-", "s", "t", "a", "t", "s">>
              ELSE IF GetBool(request, "items-in-progress", FALSE) THEN <<"/", "m", "e", "/", "i", "t", "e", "m", "s", "-", "i", "n", "-", "p", "r", "o", "g", "r", "e", "s", "s">>
              ELSE <<"/", "m", "e">>
  IN IF ~cfg.err.isNil
     THEN ReturnError(cfg.err.msg, cfg.baseURL, cfg.token, <<>>)
     ELSE callGET(cfg.baseURL, cfg.token, path)

meHandler(request) ==
  LET cfg == getABSConfig(request)
      progressItemID == GetString(request, "progress_item_id", <<>>)
      progressEpisodeID == GetString(request, "progress_episode_id", <<>>)
      path == IF GetBool(request, "listening-sessions", FALSE) THEN <<"/", "m", "e", "/", "l", "i", "s", "t", "e", "n", "i", "n", "g", "-", "s", "e", "s", "s", "i", "o", "n", "s">>
              ELSE IF GetBool(request, "listening-stats", FALSE) THEN <<"/", "m", "e", "/", "l", "i", "s", "t", "e", "n", "i", "n", "g", "-", "s", "t", "a", "t", "s">>
              ELSE IF GetBool(request, "items-in-progress", FALSE) THEN <<"/", "m", "e", "/", "i", "t", "e", "m", "s", "-", "i", "n", "-", "p", "r", "o", "g", "r", "e", "s", "s">>
              ELSE IF progressItemID # <<>>
              THEN (IF progressEpisodeID # <<>>
                    THEN Sprintf(<<"/", "m", "e", "/", "p", "r", "o", "g", "r", "e", "s", "s", "/", "%", "s", "/", "%", "s">>, <<progressItemID, progressEpisodeID>>)
                    ELSE Sprintf(<<"/", "m", "e", "/", "p", "r", "o", "g", "r", "e", "s", "s", "/", "%", "s">>, <<progressItemID>>))
              ELSE <<"/", "m", "e">>
  IN IF ~cfg.err.isNil
     THEN ReturnError(cfg.err.msg, cfg.baseURL, cfg.token, <<>>)
     ELSE callGET(cfg.baseURL, cfg.token, path)

podcastsHandler(request) ==
  LET cfg == getABSConfig(request)
      path == IF GetBool(request, "feed", FALSE) THEN <<"/", "p", "o", "d", "c", "a", "s", "t", "s", "/", "f", "e", "e", "d">>
              ELSE IF GetBool(request, "opml", FALSE) THEN <<"/", "p", "o", "d", "c", "a", "s", "t", "s", "/", "o", "p", "m", "l">>
              ELSE <<"/", "p", "o", "d", "c", "a", "s", "t", "s">>
  IN IF ~cfg.err.isNil
     THEN ReturnError(cfg.err.msg, cfg.baseURL, cfg.token, <<>>)
     ELSE callGET(cfg.baseURL, cfg.token, path)

\* mutant: the episode identifier is looked at before the flags
podcastHandler_EpisodeFirst(request) ==
  LET cfg == getABSConfig(request)
      podcastID == RequireString(request, "podcast_id")
      episodeID == GetString(request, "episode_id", <<>>)
      path == IF episodeID # <<>>
              THEN Sprintf(<<"/", "p", "o", "d", "c", "a", "s", "t", "s", "/", "%", "s", "/", "e", "p", "i", "s", "o", "d", "e", "/", "%", "s">>, <<podcastID.val, episodeID>>)
              ELSE IF GetBool(request, "downloads", FALSE)
              THEN Sprintf(<<"/", "p", "o", "d", "c", "a", "s", "t", "s", "/", "%", "s", "/", "d", "o", "w", "n", "l", "o", "a", "d", "s">>, <<podcastID.val>>)
              ELSE IF GetBool(request, "search-episode", FALSE)
              THEN Sprintf(<<"/", "p", "o", "d", "c", "a", "s", "t", "s", "/", "%", "s", "/", "s", "e", "a", "r", "c", "h", "-", "e", "p", "i", "s", "o", "d", "e">>, <<podcastID.val>>)
              ELSE Sprintf(<<"/", "p", "o", "d", "c", "a", "s", "t", "s", "/", "%", "s">>, <<podcastID.val>>)
  IN IF ~cfg.err.isNil
     THEN ReturnError(cfg.err.msg, cfg.baseURL, cfg.token, <<>>)
     ELSE IF ~podcastID.err.isNil
     THEN ReturnError(podcastID.err.msg, cfg.baseURL, cfg.token, <<>>)
     ELSE callGET(cfg.baseURL, cfg.token, path)

podcastHandler(request) ==
  LET cfg == getABSConfig(request)
      podcastID == RequireString(request, "podcast_id")
      episodeID == GetString(request, "episode_id", <<>>)
      path == IF GetBool(request, "downloads", FALSE)
              THEN Sprintf(<<"/", "p", "o", "d", "c", "a", "s", "t", "s", "/", "%", "s", "/", "d", "o", "w", "n", "l", "o", "a", "d", "s">>, <<podcastID.val>>)
              ELSE IF GetBool(request, "search-episode", FALSE)
              THEN Sprintf(<<"/", "p", "o", "d", "c", "a", "s", "t", "s", "/", "%", "s", "/", "s", "e", "a", "r", "c", "h", "-", "e", "p", "i", "s", "o", "d", "e">>, <<podcastID.val>>)
              ELSE IF episodeID # <<>>
              THEN Sprintf(<<"/", "p", "o", "d", "c", "a", "s", "t", "s", "/", "%", "s", "/", "e", "p", "i", "s", "o", "d", "e", "/", "%", "s">>, <<podcastID.val, episodeID>>)
              ELSE Sprintf(<<"/", "p", "o", "d", "c", "a", "s", "t", "s", "/", "%", "s">>, <<podcastID.val>>)
  IN IF ~cfg.err.isNil
     THEN ReturnError(cfg.err.msg, cfg.baseURL, cfg.token, <<>>)
     ELSE IF ~podcastID.err.isNil
     THEN ReturnError(podcastID.err.msg, cfg.baseURL, cfg.token, <<>>)
     ELSE callGET(cfg.baseURL, cfg.token, path)

\* mutant: a piece that is empty once trimmed is dropped
RECURSIVE folderObjects_SkipEmpty(_)
folderObjects_SkipEmpty(folderPaths) ==
  IF folderPaths = <<>> THEN <<>>
  ELSE (IF TrimSpace(Head(folderPaths)) = <<>> THEN <<>>
        ELSE <<JMap([fullPath |-> JStr(TrimSpace(Head(folderPaths)))])>>)
       \o folderObjects_SkipEmpty(Tail(folderPaths))

\* mutant: the pieces are not trimmed
RECURSIVE folderObjects_Untrimmed(_)
folderObjects_Untrimmed(folderPaths) ==
  IF folderPaths = <<>> THEN <<>>
  ELSE <<JMap([fullPath |-> JStr(Head(folderPaths))])>> \o folderObjects_Untrimmed(Tail(folderPaths))

\* folders[i] = {"fullPath": strings.TrimSpace(path)} for each piece of the split
RECURSIVE folderObjects(_)
folderObjects(folderPaths) ==
  IF folderPaths = <<>> THEN <<>>
  ELSE <<JMap([fullPath |-> JStr(TrimSpace(Head(folderPaths)))])>> \o folderObjects(Tail(folderPaths))

createLibraryHandler(request) ==
  LET cfg == getABSConfig(request)
      name == RequireString(request, "name")
      foldersStr == RequireString(request, "folders")
      mediaType == RequireString(request, "media_type")
      folderPaths == Split(foldersStr.val, ",")
      folders == folderObjects(folderPaths)
      icon == GetString(request, "icon", <<>>)
      provider == GetString(request, "provider", <<>>)
      payload == [name |-> JStr(name.val), folders |-> JList(folders), mediaType |-> JStr(mediaType.val)]
                 @@ (IF icon # <<>> THEN [icon |-> JStr(icon)] ELSE NoArgs)
                 @@ (IF provider # <<>> THEN [provider |-> JStr(provider)] ELSE NoArgs)
  IN IF ~cfg.err.isNil
     THEN ReturnError(cfg.err.msg, cfg.baseURL, cfg.token, <<>>)
     ELSE IF ~name.err.isNil
     THEN ReturnError(name.err.msg, cfg.baseURL, cfg.token, <<>>)
     ELSE IF ~foldersStr.err.isNil
     THEN ReturnError(foldersStr.err.msg, cfg.baseURL, cfg.token, <<>>)
     ELSE IF ~mediaType.err.isNil
     THEN ReturnError(mediaType.err.msg, cfg.baseURL, cfg.token, <<>>)
     ELSE callPOST(cfg.baseURL, cfg.token, <<"/", "l", "i", "b", "r", "a", "r", "i", "e", "s">>, Payload(payload))

createCollectionHandler(request) ==
  LET cfg == getABSConfig(request)
      libraryID == RequireString(request, "library_id")
      name == RequireString(request, "name")
      description == GetString(request, "description", <<>>)
      payload == [libraryId |-> JStr(libraryID.val), name |-> JStr(name.val)]
                 @@ (IF description # <<>> THEN [description |-> JStr(description)] ELSE NoArgs)
  IN IF ~cfg.err.isNil
     THEN ReturnError(cfg.err.msg, cfg.baseURL, cfg.token, <<>>)
     ELSE IF ~libraryID.err.isNil
     THEN ReturnError(libraryID.err.msg, cfg.baseURL, cfg.token, <<>>)
     ELSE IF ~name.err.isNil
     THEN ReturnError(name.err.msg, cfg.baseURL, cfg.token, <<>>)
     ELSE callPOST(cfg.baseURL, cfg.token, <<"/", "c", "o", "l", "l", "e", "c", "t", "i", "o", "n", "s">>, Payload(payload))

addToCollectionHandler(request) ==
  LET cfg == getABSConfig(request)
      collectionID == RequireString(request, "collection_id")
      bookID == RequireString(request, "book_id")
      payload == [id |-> JStr(bookID.val)]
  IN IF ~cfg.err.isNil
     THEN ReturnError(cfg.err.msg, cfg.baseURL, cfg.token, <<>>)
     ELSE IF ~collectionID.err.isNil
     THEN ReturnError(collectionID.err.msg, cfg.baseURL, cfg.token, <<>>)
     ELSE IF ~bookID.err.isNil
     THEN ReturnError(bookID.err.msg, cfg.baseURL, cfg.token, <<>>)
     ELSE callPOST(cfg.baseURL, cfg.token,
                   Sprintf(<<"/", "c", "o", "l", "l", "e", "c", "t", "i", "o", "n", "s", "/", "%", "s", "/", "b", "o", "o", "k">>, <<collectionID.val>>), Payload(payload))

createPlaylistHandler(request) ==
  LET cfg == getABSConfig(request)
      libraryID == RequireString(request, "library_id")
      name == RequireString(request, "name")
      description == GetString(request, "description", <<>>)
      payload == [libraryId |-> JStr(libraryID.val), name |-> JStr(name.val)]
                 @@ (IF description # <<>> THEN [description |-> JStr(description)] ELSE NoArgs)
  IN IF ~cfg.err.isNil
     THEN ReturnError(cfg.err.msg, cfg.baseURL, cfg.token, <<>>)
     ELSE IF ~libraryID.err.isNil
     THEN ReturnError(libraryID.err.msg, cfg.baseURL, cfg.token, <<>>)
     ELSE IF ~name.err.isNil
     THEN ReturnError(name.err.msg, cfg.baseURL, cfg.token, <<>>)
     ELSE callPOST(cfg.baseURL, cfg.token, <<"/", "p", "l", "a", "y", "l", "i", "s", "t", "s">>, Payload(payload))

\* mutant: the episode identifier is sent whatever it is
addToPlaylistHandler_AlwaysEpisode(request) ==
  LET cfg == getABSConfig(request)
      playlistID == RequireString(request, "playlist_id")
      itemID == RequireString(request, "item_id")
      episodeID == GetString(request, "episode_id", <<>>)
      payload == [libraryItemId |-> JStr(itemID.val)]
                 @@ [episodeId |-> JStr(episodeID)]
  IN IF ~cfg.err.isNil
     THEN ReturnError(cfg.err.msg, cfg.baseURL, cfg.token, <<>>)
     ELSE IF ~playlistID.err.isNil
     THEN ReturnError(playlistID.err.msg, cfg.baseURL, cfg.token, <<>>)
     ELSE IF ~itemID.err.isNil
     THEN ReturnError(itemID.err.msg, cfg.baseURL, cfg.token, <<>>)
     ELSE callPOST(cfg.baseURL, cfg.token,
                   Sprintf(<<"/", "p", "l", "a", "y", "l", "i", "s", "t", "s", "/", "%", "s", "/", "i", "t", "e", "m">>, <<playlistID.val>>), Payload(payload))

addToPlaylistHandler(request) ==
  LET cfg == getABSConfig(request)
      playlistID == RequireString(request, "playlist_id")
      itemID == RequireString(request, "item_id")
      episodeID == GetString(request, "episode_id", <<>>)
      payload == [libraryItemId |-> JStr(itemID.val)]
                 @@ (IF episodeID # <<>> THEN [episodeId |-> JStr(episodeID)] ELSE NoArgs)
  IN IF ~cfg.err.isNil
     THEN ReturnError(cfg.err.msg, cfg.baseURL, cfg.token, <<>>)
     ELSE IF ~playlistID.err.isNil
     THEN ReturnError(playlistID.err.msg, cfg.baseURL, cfg.token, <<>>)
     ELSE IF ~itemID.err.isNil
     THEN ReturnError(itemID.err.msg, cfg.baseURL, cfg.token, <<>>)
     ELSE callPOST(cfg.baseURL, cfg.token,
                   Sprintf(<<"/", "p", "l", "a", "y", "l", "i", "s", "t", "s", "/", "%", "s", "/", "i", "t", "e", "m">>, <<playlistID.val>>), Payload(payload))

checkPodcastEpisodesHandler(request) ==
  LET cfg == getABSConfig(request)
      podcastID == RequireString(request, "podcast_id")
  IN IF ~cfg.err.isNil
     THEN ReturnError(cfg.err.msg, cfg.baseURL, cfg.token, <<>>)
     ELSE IF ~podcastID.err.isNil
     THEN ReturnError(podcastID.err.msg, cfg.baseURL, cfg.token, <<>>)
     ELSE callPOST(cfg.baseURL, cfg.token,
                   Sprintf(<<"/", "p", "o", "d", "c", "a", "s", "t", "s", "/", "%", "s", "/", "c", "h", "e", "c", "k", "-", "n", "e", "w", "-", "e", "p", "i", "s", "o", "d", "e", "s">>, <<podcastID.val>>), NilPayload)

createBackupHandler(request) ==
  LET cfg == getABSConfig(request)
  IN IF ~cfg.err.isNil
     THEN ReturnError(cfg.err.msg, cfg.baseURL, cfg.token, <<>>)
     ELSE callPOST(cfg.baseURL, cfg.token, <<"/", "b", "a", "c", "k", "u", "p", "s">>, NilPayload)

\* mutant: duration, finished flag and episode are sent whatever they are
updateProgressHandler_AlwaysAll(request) ==
  LET cfg == getABSConfig(request)
      itemID == RequireString(request, "item_id")
      progress == RequireFloat(request, "progress")
      duration == GetFloat(request, "duration", 0)
      isFinished == GetBool(request, "is_finished", FALSE)
      episodeID == GetString(request, "episode_id", <<>>)
      payload == [libraryItemId |-> JStr(itemID.val), currentTime |-> JNum(progress.val)]
                 @@ [duration |-> JNum(duration), isFinished |-> JBool(isFinished),
                     episodeId |-> JStr(episodeID)]
  IN IF ~cfg.err.isNil
     THEN ReturnError(cfg.err.msg, cfg.baseURL, cfg.token, <<>>)
     ELSE IF ~itemID.err.isNil
     THEN ReturnError(itemID.err.msg, cfg.baseURL, cfg.token, <<>>)
     ELSE IF ~progress.err.isNil
     THEN ReturnError(progress.err.msg, cfg.baseURL, cfg.token, <<>>)
     ELSE callPOST(cfg.baseURL, cfg.token, <<"/", "m", "e", "/", "p", "r", "o", "g", "r", "e", "s", "s">>, Payload(payload))

updateProgressHandler(request) ==
  LET cfg == getABSConfig(request)
      itemID == RequireString(request, "item_id")
      progress == RequireFloat(request, "progress")
      duration == GetFloat(request, "duration", 0)
      isFinished == GetBool(request, "is_finished", FALSE)
      episodeID == GetString(request, "episode_id", <<>>)
      payload == [libraryItemId |-> JStr(itemID.val), currentTime |-> JNum(progress.val)]
                 @@ (IF duration > 0 THEN [duration |-> JNum(duration)] ELSE NoArgs)
                 @@ (IF isFinished THEN [isFinished |-> JBool(TRUE)] ELSE NoArgs)
                 @@ (IF episodeID # <<>> THEN [episodeId |-> JStr(episodeID)] ELSE NoArgs)
  IN IF ~cfg.err.isNil
     THEN ReturnError(cfg.err.msg, cfg.baseURL, cfg.token, <<>>)
     ELSE IF ~itemID.err.isNil
     THEN ReturnError(itemID.err.msg, cfg.baseURL, cfg.token, <<>>)
     ELSE IF ~progress.err.isNil
     THEN ReturnError(progress.err.msg, cfg.baseURL, cfg.token, <<>>)
     ELSE callPOST(cfg.baseURL, cfg.token, <<"/", "m", "e", "/", "p", "r", "o", "g", "r", "e", "s", "s">>, Payload(payload))

(***************************************************************************)
(* The tool registry of main: for each tool the handler it is registered   *)
(* with (s.AddTool) and the arguments its schema declares besides          *)
(* base_url and token (withABSAuth).                                       *)
(***************************************************************************)
Tool(handler, path, idParam, subResources, strs, flags, nums) ==
  [handler |-> handler, path |-> path, idParam |-> idParam, subResources |-> subResources,
   strs |-> strs, flags |-> flags, nums |-> nums]

SimpleTool(path) == Tool("simple", path, "", <<>>, {}, {}, {})

RootTool(path) == Tool("root", path, "", <<>>, {}, {}, {})

ByIDTool(pathTemplate, idParam) == Tool("byID", pathTemplate, idParam, <<>>, {idParam}, {}, {})

Range(s) == {s[i] : i \in 1 .. Len(s)}

SubResourceTool(basePath, idParam, subResources) ==
  Tool("subResource", basePath, idParam, subResources, {idParam}, Range(subResources), {})

librarySubResources ==
  <<"items", "authors", "series", "collections", "playlists", "personalized", "filterdata",
    "stats", "search", "episode-downloads", "recent-episodes">>

Tools ==
  [libraries |-> SimpleTool(<<"/", "l", "i", "b", "r", "a", "r", "i", "e", "s">>),
   library |-> SubResourceTool(<<"/", "l", "i", "b", "r", "a", "r", "i", "e", "s", "/", "%", "s">>, "library_id", librarySubResources),
   create_library |-> Tool("createLibrary", <<>>, "", <<>>,
                           {"name", "folders", "media_type", "icon", "provider"}, {}, {}),
   item |-> SubResourceTool(<<"/", "i", "t", "e", "m", "s", "/", "%", "s">>, "item_id", <<"cover", "tone-object">>),
   author |-> ByIDTool(<<"/", "a", "u", "t", "h", "o", "r", "s", "/", "%", "s">>, "author_id"),
   me |-> Tool("me", <<>>, "", <<>>, {"progress_item_id", "progress_episode_id"},
               {"listening-sessions", "listening-stats", "items-in-progress"}, {}),
   sessions |-> SimpleTool(<<"/", "s", "e", "s", "s", "i", "o", "n", "s">>),
   session |-> ByIDTool(<<"/", "s", "e", "s", "s", "i", "o", "n", "s", "/", "%", "s">>, "session_id"),
   podcasts |-> Tool("podcasts", <<>>, "", <<>>, {}, {"feed", "opml"}, {}),
   podcast |-> Tool("podcast", <<>>, "", <<>>, {"podcast_id", "episode_id"},
                    {"downloads", "search-episode"}, {}),
   collections |-> SimpleTool(<<"/", "c", "o", "l", "l", "e", "c", "t", "i", "o", "n", "s">>),
   collection |-> ByIDTool(<<"/", "c", "o", "l", "l", "e", "c", "t", "i", "o", "n", "s", "/", "%", "s">>, "collection_id"),
   create_collection |-> Tool("createCollection", <<>>, "", <<>>,
                              {"library_id", "name", "description"}, {}, {}),
   add_to_collection |-> Tool("addToCollection", <<>>, "", <<>>,
                              {"collection_id", "book_id"}, {}, {}),
   playlists |-> SimpleTool(<<"/", "p", "l", "a", "y", "l", "i", "s", "t", "s">>),
   playlist |-> ByIDTool(<<"/", "p", "l", "a", "y", "l", "i", "s", "t", "s", "/", "%", "s">>, "playlist_id"),
   create_playlist |-> Tool("createPlaylist", <<>>, "", <<>>,
                            {"library_id", "name", "description"}, {}, {}),
   add_to_playlist |-> Tool("addToPlaylist", <<>>, "", <<>>,
                            {"playlist_id", "item_id", "episode_id"}, {}, {}),
   check_podcast_episodes |-> Tool("checkPodcastEpisodes", <<>>, "", <<>>, {"podcast_id"}, {}, {}),
   create_backup |-> Tool("createBackup", <<>>, "", <<>>, {}, {}, {}),
   update_progress |-> Tool("updateProgress", <<>>, "", <<>>, {"item_id", "episode_id"},
                            {"is_finished"}, {"progress", "duration"}),
   ping |-> RootTool(<<"/", "p", "i", "n", "g">>),
   healthcheck |-> RootTool(<<"/", "h", "e", "a", "l", "t", "h", "c", "h", "e", "c", "k">>),
   status |-> RootTool(<<"/", "s", "t", "a", "t", "u", "s">>),
   users |-> SimpleTool(<<"/", "u", "s", "e", "r", "s">>),
   users_online |-> SimpleTool(<<"/", "u", "s", "e", "r", "s", "/", "o", "n", "l", "i", "n", "e">>),
   user |-> SubResourceTool(<<"/", "u", "s", "e", "r", "s", "/", "%", "s">>, "user_id", <<"listening-sessions", "listening-stats">>),
   series |-> ByIDTool(<<"/", "s", "e", "r", "i", "e", "s", "/", "%", "s">>, "series_id"),
   author_image |-> ByIDTool(<<"/", "a", "u", "t", "h", "o", "r", "s", "/", "%", "s", "/", "i", "m", "a", "g", "e">>, "author_id"),
   backups |-> SimpleTool(<<"/", "b", "a", "c", "k", "u", "p", "s">>),
   filesystem |-> SimpleTool(<<"/", "f", "i", "l", "e", "s", "y", "s", "t", "e", "m">>),
   authorize |-> SimpleTool(<<"/", "a", "u", "t", "h", "o", "r", "i", "z", "e">>),
   tags |-> SimpleTool(<<"/", "t", "a", "g", "s">>),
   genres |-> SimpleTool(<<"/", "g", "e", "n", "r", "e", "s">>)]

ToolNames == DOMAIN Tools

\* the arguments a tool's handler requires, in the order it asks for them
RequiredArgs(t) ==
  CASE Tools[t].handler \in {"byID", "subResource"} -> <<Tools[t].idParam>>
    [] Tools[t].handler = "podcast" -> <<"podcast_id">>
    [] Tools[t].handler = "createLibrary" -> <<"name", "folders", "media_type">>
    [] Tools[t].handler = "createCollection" -> <<"library_id", "name">>
    [] Tools[t].handler = "addToCollection" -> <<"collection_id", "book_id">>
    [] Tools[t].handler = "createPlaylist" -> <<"library_id", "name">>
    [] Tools[t].handler = "addToPlaylist" -> <<"playlist_id", "item_id">>
    [] Tools[t].handler = "checkPodcastEpisodes" -> <<"podcast_id">>
    [] Tools[t].handler = "updateProgress" -> <<"item_id", "progress">>
    [] OTHER -> <<>>

ToolsOf(handler) == {t \in ToolNames : Tools[t].handler = handler}

(***************************************************************************)
(* Inputs: the environment, the argument bags and the upstream's answers.  *)
(***************************************************************************)
EnvBaseURLs == {<<>>, <<"e", "/">>}

EnvTokens == {<<>>, <<"k">>}

BaseURLArgs == {<<>>, <<"h">>}

TokenArgs == {<<>>, <<"t">>}

\* identifiers substituted into a path: empty, plain, and one that no URL can hold
IDValues == {<<>>, <<"x">>, <<"\n">>}

\* library identifiers
LibraryIDValues == {<<>>, <<"l", "i", "b", "1", "2", "3">>, <<"\n">>}

\* folders: empty, two paths, and one with a leading, a doubled and a
\* trailing comma and a segment of white space
FolderValues == {<<>>, <<"/", "a", ",", " ", "/", "b">>, <<",", " ", ",", ",", "/", "a", ",">>}

StrValues == {<<>>, <<"y">>}

NumValues == {0, 5}

PathIDs ==
  {"library_id", "item_id", "author_id", "session_id", "podcast_id", "collection_id",
   "playlist_id", "user_id", "series_id", "book_id"}

ValuesOf(k) ==
  IF k = "base_url" THEN BaseURLArgs
  ELSE IF k = "token" THEN TokenArgs
  ELSE IF k = "library_id" THEN LibraryIDValues
  ELSE IF k \in PathIDs THEN IDValues
  ELSE IF k = "folders" THEN FolderValues
  ELSE IF k \in {"progress", "duration"} THEN NumValues
  ELSE StrValues

\* every bag over some of the names, each name present with one of its values
RECURSIVE BagsOver(_)
BagsOver(names) ==
  IF names = {} THEN {NoArgs}
  ELSE LET k == CHOOSE n \in names : TRUE
           rest == BagsOver(names \ {k})
       IN rest \cup {b @@ (k :> v) : b \in rest, v \in ValuesOf(k)}

\* every bag of at most MaxFlagArgs flags, each true or false
FlagBags(flags) ==
  UNION {[S -> BOOLEAN] : S \in {F \in SUBSET flags : Cardinality(F) <= MaxFlagArgs}}

ArgBags(t) ==
  {s @@ f : s \in BagsOver({"base_url", "token"} \cup Tools[t].strs \cup Tools[t].nums),
            f \in FlagBags(Tools[t].flags)}

StatusCodes == {101, 200, 299, 300, 404}

\* http.StatusText
StatusText(code) ==
  CASE code = 101 -> <<"S", "w", "i", "t", "c", "h", "i", "n", "g", " ", "P", "r", "o", "t", "o", "c", "o", "l", "s">>
    [] code = 200 -> <<"O", "K">>
    [] code = 300 -> <<"M", "u", "l", "t", "i", "p", "l", "e", " ", "C", "h", "o", "i", "c", "e", "s">>
    [] code = 404 -> <<"N", "o", "t", " ", "F", "o", "u", "n", "d">>
    [] OTHER -> <<>>

Bodies == {<<" ", "b">>}

ReadErrors == {[isNil |-> FALSE, msg |-> <<"u", "n", "e", "x", "p", "e", "c", "t", "e", "d", " ", "E", "O", "F">>]}

\* an upstream answer: the status line, the body sent, and how much of the
\* body arrives (all of it, or a proper prefix and then a read error)
Responses ==
  {[StatusCode |-> c, Status |-> Itoa(c) \o <<" ">> \o StatusText(c), Body |-> b,
    arrived |-> Len(b), readErr |-> NilErr] : c \in StatusCodes, b \in Bodies}
  \cup
  UNION {{[StatusCode |-> c, Status |-> Itoa(c) \o <<" ">> \o StatusText(c), Body |-> b,
           arrived |-> n, readErr |-> e] : n \in 1 .. (Len(b) - 1), e \in ReadErrors}
         : c \in StatusCodes, b \in Bodies}

\* what httpClient.Do fails with whatever the context: no connection, or
\* httpClient.Timeout running out
TransportErrors == {[isNil |-> FALSE, msg |-> <<"c", "o", "n", "t", "e", "x", "t", " ", "d", "e", "a", "d", "l", "i", "n", "e", " ", "e", "x", "c", "e", "e", "d", "e", "d">>]}

\* what httpClient.Do fails with once the request's context is cancelled
ContextErrors == {[isNil |-> FALSE, msg |-> <<"c", "o", "n", "t", "e", "x", "t", " ", "c", "a", "n", "c", "e", "l", "e", "d">>]}

(***************************************************************************)
(* State.                                                                  *)
(*   env     the process environment                                       *)
(*   pc      per invocation slot: "idle", "waiting" (in httpClient.Do),    *)
(*           "done" (the handler has returned)                             *)
(*   call    the tool invoked and its argument bag                         *)
(*   ctx     the invocation's context: "live" or "cancelled"               *)
(*   locals  the handler's baseURL, token and path                         *)
(*   wire    the requests the invocation has put on the network            *)
(*   reply   what httpClient.Do returned                                   *)
(*   ret     the tool result and the error the handler returns             *)
(*   passed  history: an invocation that has returned was given both a     *)
(*           base_url and a token of its own                               *)
(***************************************************************************)
NoCall == [tool |-> "", args |-> NoArgs]

NoReply == [err |-> NilErr, resp |-> NoResp]

NoRet == [result |-> NoResult, err |-> NilErr]

Init ==
  /\ env \in [ABS_BASE_URL : EnvBaseURLs, ABS_API_KEY : EnvTokens]
  /\ pc = [p \in Procs |-> "idle"]
  /\ call = [p \in Procs |-> NoCall]
  /\ ctx = [p \in Procs |-> "live"]
  /\ locals = [p \in Procs |-> NoLocals]
  /\ wire = [p \in Procs |-> <<>>]
  /\ reply = [p \in Procs |-> NoReply]
  /\ ret = [p \in Procs |-> NoRet]
  /\ passed = FALSE

\* mutant: the configuration an invocation resolves is kept in the environment
Invoke_Persists(p, t, request, out) ==
  /\ pc[p] = "idle"
  /\ call' = [call EXCEPT ![p] = [tool |-> t, args |-> request]]
  /\ locals' = [locals EXCEPT ![p] = [baseURL |-> out.baseURL, token |-> out.token, path |-> out.path]]
  /\ wire' = [wire EXCEPT ![p] = IF out.sent THEN Append(@, out.req) ELSE @]
  /\ pc' = [pc EXCEPT ![p] = IF out.sent THEN "waiting" ELSE "done"]
  /\ ret' = [ret EXCEPT ![p] = [result |-> out.result, err |-> out.err]]
  /\ env' = [ABS_BASE_URL |-> getEnvOrParam(GetString(request, "base_url", <<>>), "ABS_BASE_URL"),
             ABS_API_KEY |-> getEnvOrParam(GetString(request, "token", <<>>), "ABS_API_KEY")]
  /\ UNCHANGED <<ctx, reply, passed>>

\* the hosting protocol calls the handler of tool t with the bag request;
\* out is the handler run up to its return or its outbound request
Invoke(p, t, request, out) ==
  /\ pc[p] = "idle"
  /\ call' = [call EXCEPT ![p] = [tool |-> t, args |-> request]]
  /\ locals' = [locals EXCEPT ![p] = [baseURL |-> out.baseURL, token |-> out.token, path |-> out.path]]
  /\ wire' = [wire EXCEPT ![p] = IF out.sent THEN Append(@, out.req) ELSE @]
  /\ pc' = [pc EXCEPT ![p] = IF out.sent THEN "waiting" ELSE "done"]
  /\ ret' = [ret EXCEPT ![p] = [result |-> out.result, err |-> out.err]]
  /\ UNCHANGED <<env, ctx, reply, passed>>

SimpleGET(p) ==
  /\ pc[p] = "idle"
  /\ \E t \in ToolsOf("simple") : \E request \in ArgBags(t) :
       Invoke(p, t, request, createSimpleGETHandler(Tools[t].path, request))

RootGET(p) ==
  /\ pc[p] = "idle"
  /\ \E t \in ToolsOf("root") : \E request \in ArgBags(t) :
       Invoke(p, t, request, createRootGETHandler(Tools[t].path, request))

GETByID(p) ==
  /\ pc[p] = "idle"
  /\ \E t \in ToolsOf("byID") : \E request \in ArgBags(t) :
       Invoke(p, t, request, createGETByIDHandler(Tools[t].path, Tools[t].idParam, request))

GETByIDWithSubResource(p) ==
  /\ pc[p] = "idle"
  /\ \E t \in ToolsOf("subResource") : \E request \in ArgBags(t) :
       Invoke(p, t, request,
           createGETByIDWithSubResourceHandler(Tools[t].path, Tools[t].idParam,
                                               Tools[t].subResources, request))

Me(p) ==
  /\ pc[p] = "idle"
  /\ \E t \in ToolsOf("me") : \E request \in ArgBags(t) :
       Invoke(p, t, request, meHandler(request))

Podcasts(p) ==
  /\ pc[p] = "idle"
  /\ \E t \in ToolsOf("podcasts") : \E request \in ArgBags(t) :
       Invoke(p, t, request, podcastsHandler(request))

Podcast(p) ==
  /\ pc[p] = "idle"
  /\ \E t \in ToolsOf("podcast") : \E request \in ArgBags(t) :
       Invoke(p, t, request, podcastHandler(request))

CreateLibrary(p) ==
  /\ pc[p] = "idle"
  /\ \E t \in ToolsOf("createLibrary") : \E request \in ArgBags(t) :
       Invoke(p, t, request, createLibraryHandler(request))

CreateCollection(p) ==
  /\ pc[p] = "idle"
  /\ \E t \in ToolsOf("createCollection") : \E request \in ArgBags(t) :
       Invoke(p, t, request, createCollectionHandler(request))

AddToCollection(p) ==
  /\ pc[p] = "idle"
  /\ \E t \in ToolsOf("addToCollection") : \E request \in ArgBags(t) :
       Invoke(p, t, request, addToCollectionHandler(request))

CreatePlaylist(p) ==
  /\ pc[p] = "idle"
  /\ \E t \in ToolsOf("createPlaylist") : \E request \in ArgBags(t) :
       Invoke(p, t, request, createPlaylistHandler(request))

AddToPlaylist(p) ==
  /\ pc[p] = "idle"
  /\ \E t \in ToolsOf("addToPlaylist") : \E request \in ArgBags(t) :
       Invoke(p, t, request, addToPlaylistHandler(request))

CheckPodcastEpisodes(p) ==
  /\ pc[p] = "idle"
  /\ \E t \in ToolsOf("checkPodcastEpisodes") : \E request \in ArgBags(t) :
       Invoke(p, t, request, checkPodcastEpisodesHandler(request))

CreateBackup(p) ==
  /\ pc[p] = "idle"
  /\ \E t \in ToolsOf("createBackup") : \E request \in ArgBags(t) :
       Invoke(p, t, request, createBackupHandler(request))

UpdateProgress(p) ==
  /\ pc[p] = "idle"
  /\ \E t \in ToolsOf("updateProgress") : \E request \in ArgBags(t) :
       Invoke(p, t, request, updateProgressHandler(request))

\* mutant: a failed attempt is retried once
Resume_Retries(p, do) ==
  /\ pc[p] = "waiting"
  /\ reply' = [reply EXCEPT ![p] = do]
  /\ ret' = [ret EXCEPT ![p] =
               IF wire[p][Len(wire[p])].method = "GET"
               THEN wrapOutcome(absGETResponse(do))
               ELSE wrapOutcome(absPOSTResponse(do))]
  /\ IF ret'[p].result.IsError /\ Len(wire[p]) < 2
     THEN /\ wire' = [wire EXCEPT ![p] = Append(@, @[1])]
          /\ pc' = pc
     ELSE /\ wire' = wire
          /\ pc' = [pc EXCEPT ![p] = "done"]
  /\ UNCHANGED <<env, call, ctx, locals, passed>>

\* mutant: the response is kept in a buffer all invocations share, and
\* completes every invocation that waits
Resume_SharedBuffer(p, do) ==
  /\ pc[p] = "waiting"
  /\ reply' = [q \in Procs |-> IF pc[q] = "waiting" THEN do ELSE reply[q]]
  /\ ret' = [q \in Procs |->
               IF pc[q] # "waiting" THEN ret[q]
               ELSE IF wire[q][Len(wire[q])].method = "GET"
               THEN wrapOutcome(absGETResponse(do))
               ELSE wrapOutcome(absPOSTResponse(do))]
  /\ pc' = [q \in Procs |-> IF pc[q] = "waiting" THEN "done" ELSE pc[q]]
  /\ UNCHANGED <<env, call, ctx, locals, wire, passed>>

\* httpClient.Do returns do; the transport function and the handler run to
\* the handler's return
Resume(p, do) ==
  /\ pc[p] = "waiting"
  /\ reply' = [reply EXCEPT ![p] = do]
  /\ ret' = [ret EXCEPT ![p] =
               IF wire[p][Len(wire[p])].method = "GET"
               THEN wrapOutcome(absGETResponse(do))
               ELSE wrapOutcome(absPOSTResponse(do))]
  /\ pc' = [pc EXCEPT ![p] = "done"]
  /\ UNCHANGED <<env, call, ctx, locals, wire, passed>>

\* the caller cancels the context of an invocation that waits in httpClient.Do
ctxCancel(p) ==
  /\ pc[p] = "waiting"
  /\ ctx[p] = "live"
  /\ ctx' = [ctx EXCEPT ![p] = "cancelled"]
  /\ UNCHANGED <<env, pc, call, locals, wire, reply, ret, passed>>

\* mutant: the response is delivered whatever became of the context
httpClientDoResponse_IgnoresContext(p) ==
  /\ pc[p] = "waiting"
  /\ \E resp \in Responses : Resume(p, [err |-> NilErr, resp |-> resp])

\* the upstream answers the request: the request was built with the context
\* (http.NewRequestWithContext), so Do returns a response only while the
\* context is live
httpClientDoResponse(p) ==
  /\ pc[p] = "waiting"
  /\ ctx[p] = "live"
  /\ \E resp \in Responses : Resume(p, [err |-> NilErr, resp |-> resp])

\* mutant: a cancelled context does not end the call
httpClientDoError_DeafToContext(p) ==
  /\ pc[p] = "waiting"
  /\ ctx[p] = "live"
  /\ \E e \in TransportErrors : Resume(p, [err |-> e, resp |-> NoResp])

\* the request fails: in transport or by httpClient.Timeout at any time, by
\* the context's error once the context is cancelled
httpClientDoError(p) ==
  /\ pc[p] = "waiting"
  /\ \E e \in (IF ctx[p] = "cancelled" THEN ContextErrors ELSE TransportErrors) :
       Resume(p, [err |-> e, resp |-> NoResp])

\* the result goes to the caller; the invocation and its locals are gone
Return(p) ==
  /\ pc[p] = "done"
  /\ pc' = [pc EXCEPT ![p] = "idle"]
  /\ call' = [call EXCEPT ![p] = NoCall]
  /\ ctx' = [ctx EXCEPT ![p] = "live"]
  /\ locals' = [locals EXCEPT ![p] = NoLocals]
  /\ wire' = [wire EXCEPT ![p] = <<>>]
  /\ reply' = [reply EXCEPT ![p] = NoReply]
  /\ ret' = [ret EXCEPT ![p] = NoRet]
  /\ passed' = (passed \/ (GetString(call[p].args, "base_url", <<>>) # <<>>
                            /\ GetString(call[p].args, "token", <<>>) # <<>>))
  /\ UNCHANGED env

\* one invocation at a time
Serial == {1}

Next ==
  \E p \in Serial :
    \/ SimpleGET(p)
    \/ RootGET(p)
    \/ GETByID(p)
    \/ GETByIDWithSubResource(p)
    \/ Me(p)
    \/ Podcasts(p)
    \/ Podcast(p)
    \/ CreateLibrary(p)
    \/ CreateCollection(p)
    \/ AddToCollection(p)
    \/ CreatePlaylist(p)
    \/ AddToPlaylist(p)
    \/ CheckPodcastEpisodes(p)
    \/ CreateBackup(p)
    \/ UpdateProgress(p)
    \/ ctxCancel(p)
    \/ httpClientDoResponse(p)
    \/ httpClientDoError(p)
    \/ Return(p)

Spec == Init /\ [][Next]_vars

\* the handler main registers under the tool's name (s.AddTool), run on a bag
handlerOf(t, request) ==
  CASE Tools[t].handler = "simple" -> createSimpleGETHandler(Tools[t].path, request)
    [] Tools[t].handler = "root" -> createRootGETHandler(Tools[t].path, request)
    [] Tools[t].handler = "byID" ->
         createGETByIDHandler(Tools[t].path, Tools[t].idParam, request)
    [] Tools[t].handler = "subResource" ->
         createGETByIDWithSubResourceHandler(Tools[t].path, Tools[t].idParam,
                                             Tools[t].subResources, request)
    [] Tools[t].handler = "me" -> meHandler(request)
    [] Tools[t].handler = "podcasts" -> podcastsHandler(request)
    [] Tools[t].handler = "podcast" -> podcastHandler(request)
    [] Tools[t].handler = "createLibrary" -> createLibraryHandler(request)
    [] Tools[t].handler = "createCollection" -> createCollectionHandler(request)
    [] Tools[t].handler = "addToCollection" -> addToCollectionHandler(request)
    [] Tools[t].handler = "createPlaylist" -> createPlaylistHandler(request)
    [] Tools[t].handler = "addToPlaylist" -> addToPlaylistHandler(request)
    [] Tools[t].handler = "checkPodcastEpisodes" -> checkPodcastEpisodesHandler(request)
    [] Tools[t].handler = "createBackup" -> createBackupHandler(request)
    [] Tools[t].handler = "updateProgress" -> updateProgressHandler(request)

\* a base URL that already ends in /api
APIBaseURLs == {<<"h", "/", "a", "p", "i">>}

\* the bags that hold nothing but the configuration and the arguments the
\* tool requires; the base URL may be one that already ends in /api
RequiredBags(t) ==
  LET bags == BagsOver({"base_url", "token"} \cup Range(RequiredArgs(t)))
  IN bags \cup {[b EXCEPT !["base_url"] = u] :
                  b \in {c \in bags : GetString(c, "base_url", <<>>) # <<>>}, u \in APIBaseURLs}

\* the hosting protocol calls any tool with its required arguments at most
CallTool(p) ==
  /\ pc[p] = "idle"
  /\ \E t \in ToolNames : \E request \in RequiredBags(t) :
       Invoke(p, t, request, handlerOf(t, request))

(***************************************************************************)
(* The same server under fairness: httpClient.Do returns, since            *)
(* httpClient.Timeout bounds every call and a cancelled context ends it.   *)
(* Every tool is called, with the configuration and its required           *)
(* arguments.                                                              *)
(***************************************************************************)
FairNext ==
  \E p \in Serial :
    \/ CallTool(p)
    \/ ctxCancel(p)
    \/ httpClientDoResponse(p)
    \/ httpClientDoError(p)
    \/ Return(p)

DoReturns == \E p \in Serial : httpClientDoResponse(p) \/ httpClientDoError(p)

FairSpec == Init /\ [][FairNext]_vars /\ WF_vars(DoReturns)

(***************************************************************************)
(* The same server with invocations in flight side by side: the hosting    *)
(* protocol runs each tool call in a goroutine of its own.  The calls are  *)
(* a read from the environment's server, a read by identifier from a       *)
(* server of the call's own, and a write with a key of the call's own.     *)
(***************************************************************************)
ConcurrentCalls ==
  {[tool |-> "libraries", args |-> NoArgs],
   [tool |-> "author", args |-> [base_url |-> <<"h">>, token |-> <<"t">>, author_id |-> <<"x">>]],
   [tool |-> "create_backup", args |-> [token |-> <<"t">>]]}

CallConcurrently(p) ==
  /\ pc[p] = "idle"
  /\ \E c \in ConcurrentCalls : Invoke(p, c.tool, c.args, handlerOf(c.tool, c.args))

ConcurrentNext ==
  \E p \in Procs :
    \/ CallConcurrently(p)
    \/ ctxCancel(p)
    \/ httpClientDoResponse(p)
    \/ httpClientDoError(p)
    \/ Return(p)

ConcurrentSpec == Init /\ [][ConcurrentNext]_vars

(***************************************************************************)
(* Properties.  What a property expects is computed here from the          *)
(* invocation's arguments, the environment and the upstream's answer, not  *)
(* with the operators of the handlers.                                     *)
(***************************************************************************)
Active(p) == pc[p] # "idle"

Done(p) == pc[p] = "done"

Sent(p) == wire[p] # <<>>

Present(p, k) == k \in DOMAIN call[p].args

\* a string argument, "" when absent
ArgStr(p, k) == IF Present(p, k) THEN call[p].args[k] ELSE <<>>

IsTrue(p, k) == Present(p, k) /\ call[p].args[k] = TRUE

WantBase(p) == IF ArgStr(p, "base_url") # <<>> THEN ArgStr(p, "base_url") ELSE env.ABS_BASE_URL

WantToken(p) == IF ArgStr(p, "token") # <<>> THEN ArgStr(p, "token") ELSE env.ABS_API_KEY

ConfigComplete(p) == WantBase(p) # <<>> /\ WantToken(p) # <<>>

RootTools == {"ping", "healthcheck", "status"}

MissingText(k) == <<"r", "e", "q", "u", "i", "r", "e", "d", " ", "a", "r", "g", "u", "m", "e", "n", "t", " ", "\"">> \o NameText(k) \o <<"\"", " ", "n", "o", "t", " ", "f", "o", "u", "n", "d">>

\* the required arguments that are absent, or present as the empty string
Lacking(p) ==
  {k \in Range(RequiredArgs(call[p].tool)) :
     \/ ~Present(p, k)
     \/ k \in Tools[call[p].tool].strs /\ call[p].args[k] = <<>>}

Absent(p) == {k \in Range(RequiredArgs(call[p].tool)) : ~Present(p, k)}

\* C1: a required argument that is absent or empty ends the invocation in a
\* missing-argument failure, and no request is issued (configuration being
\* complete, so that the argument check is reached).
C1_MissingOrEmptyArgFails ==
  \A p \in Procs :
    (Active(p) /\ ConfigComplete(p) /\ Lacking(p) # {})
      => /\ ~Sent(p)
         /\ Done(p)
         /\ ret[p].result.IsError
         /\ \E k \in Lacking(p) : ret[p].result.Text = MissingText(k)

\* C2: base_url and token are each resolved to the per-call argument when it
\* is a non-empty string and to the environment variable otherwise.
C2_ArgumentOverridesEnvironment ==
  \A p \in Procs :
    (Active(p) /\ ConfigComplete(p))
      => /\ locals[p].token = WantToken(p)
         /\ HasPrefix(locals[p].baseURL, WantBase(p))
         /\ Sent(p) => wire[p][1].header["Authorization"] = <<"B", "e", "a", "r", "e", "r", " ">> \o WantToken(p)

C2_Witness ==
  \E p \in Procs :
    /\ Sent(p)
    /\ ArgStr(p, "token") # <<>>
    /\ env.ABS_API_KEY # <<>>
    /\ env.ABS_API_KEY # ArgStr(p, "token")
    /\ Present(p, "base_url") /\ ArgStr(p, "base_url") = <<>>
    /\ locals[p].token = ArgStr(p, "token")
    /\ HasPrefix(locals[p].baseURL, env.ABS_BASE_URL)

\* C3: a request is issued only when the resolved base URL and the resolved
\* token are both non-empty; otherwise the invocation ends in a configuration
\* failure and nothing is sent.
C3_NoRequestWithoutConfig ==
  \A p \in Procs :
    /\ Sent(p) => ConfigComplete(p)
    /\ (Active(p) /\ ~ConfigComplete(p))
         => /\ ~Sent(p)
            /\ Done(p)
            /\ ret[p].result.IsError
            /\ ret[p].result.Text \in {MsgBaseURLRequired, MsgTokenRequired}

C3_Witness ==
  \E p \in Procs :
    /\ Done(p)
    /\ call[p].tool \in RootTools
    /\ WantBase(p) # <<>>
    /\ WantToken(p) = <<>>
    /\ ~Sent(p)
    /\ ret[p].result.IsError

C5_APISuffix ==
  \A p \in Procs :
    (Active(p) /\ ConfigComplete(p))
      => /\ locals[p].baseURL =
              IF call[p].tool \in RootTools THEN WantBase(p) ELSE WantBase(p) \o <<"/", "a", "p", "i">>
         /\ Sent(p)
              => wire[p][1].url =
                   IF call[p].tool \in RootTools
                   THEN TrimSuffix(WantBase(p), <<"/">>) \o locals[p].path
                   ELSE WantBase(p) \o <<"/", "a", "p", "i">> \o locals[p].path

C5_Witness ==
  \E p \in Procs :
    /\ Sent(p)
    /\ call[p].tool = "ping"
    /\ ~Present(p, "base_url")
    /\ locals[p].baseURL = env.ABS_BASE_URL
    /\ wire[p][1].url = <<"e", "/", "p", "i", "n", "g">>

\* the declared flags that are true among the arguments, by position
TrueFlags(p) ==
  {i \in 1 .. Len(Tools[call[p].tool].subResources) : IsTrue(p, Tools[call[p].tool].subResources[i])}

\* the path template with the identifier in place of its %s
IDPath(p) ==
  LET template == Tools[call[p].tool].path
      at == CHOOSE i \in 1 .. (Len(template) - 1) : template[i] = "%" /\ template[i + 1] = "s"
  IN SubSeq(template, 1, at - 1) \o call[p].args[Tools[call[p].tool].idParam]
     \o SubSeq(template, at + 2, Len(template))

IsSubResourceCall(p) ==
  /\ Sent(p)
  /\ Tools[call[p].tool].handler = "subResource"

\* C6: when several declared flags are true, the suffix of the path is the
\* flag declared earliest; the path is a function of the arguments alone.
C6_EarliestFlagWins ==
  \A p \in Procs :
    (IsSubResourceCall(p) /\ TrueFlags(p) # {})
      => LET first == CHOOSE i \in TrueFlags(p) : \A j \in TrueFlags(p) : i <= j
         IN locals[p].path =
              IDPath(p) \o <<"/">> \o NameText(Tools[call[p].tool].subResources[first])

C6_Witness ==
  \E p \in Procs :
    /\ IsSubResourceCall(p)
    /\ call[p].tool = "library"
    /\ Cardinality(TrueFlags(p)) >= 2
    /\ 1 \notin TrueFlags(p)
    /\ HasPrefix(wire[p][1].url, <<"h", "/", "a", "p", "i", "/", "l", "i", "b", "r", "a", "r", "i", "e", "s", "/", "l", "i", "b", "1", "2", "3", "/">>)

\* C7: the path carries at most one suffix, the suffix of a flag only if that
\* flag is true, some suffix whenever a declared flag is true, and it is the
\* base path with the identifier when no declared flag is true.
C7_AtMostOneSuffix ==
  \A p \in Procs :
    IsSubResourceCall(p)
      => /\ \/ locals[p].path = IDPath(p)
            \/ \E i \in TrueFlags(p) :
                 locals[p].path =
                   IDPath(p) \o <<"/">> \o NameText(Tools[call[p].tool].subResources[i])
         /\ (TrueFlags(p) = {}) <=> (locals[p].path = IDPath(p))
         /\ wire[p][1].url = TrimSuffix(locals[p].baseURL, <<"/">>) \o locals[p].path

C7_Witness ==
  \E p \in Procs :
    /\ IsSubResourceCall(p)
    /\ call[p].tool = "item"
    /\ Present(p, "cover") /\ ~IsTrue(p, "cover")
    /\ TrueFlags(p) = {}
    /\ locals[p].path = <<"/", "i", "t", "e", "m", "s", "/", "x">>

In2xx(code) == 200 <= code /\ code < 300

\* the upstream answered and the whole body arrived
Answered(p) == Done(p) /\ Sent(p) /\ reply[p].err.isNil

WholeBody(p) == reply[p].resp.readErr.isNil

\* C8: for a GET handler, a success result's text is the upstream response
\* body byte for byte, and a 2xx answer whose body arrives gives that result.
C8_BodyVerbatim ==
  \A p \in Procs :
    (Done(p) /\ Sent(p) /\ wire[p][1].method = "GET")
      => /\ ~ret[p].result.IsError
              => /\ Answered(p)
                 /\ ret[p].result.Text = reply[p].resp.Body
         /\ (Answered(p) /\ In2xx(reply[p].resp.StatusCode) /\ WholeBody(p))
              => /\ ~ret[p].result.IsError
                 /\ ret[p].result.Text = reply[p].resp.Body

C8_Witness ==
  \E p \in Procs :
    /\ Answered(p)
    /\ wire[p][1].method = "GET"
    /\ reply[p].resp.StatusCode = 299
    /\ reply[p].resp.Body = <<" ", "b">>
    /\ ~ret[p].result.IsError
    /\ ret[p].result.Text = <<" ", "b">>

\* C9 as stated: every status outside [200, 300) yields an error whose message
\* contains the upstream status and the upstream response body; a status
\* inside never yields this error.
C9_Original ==
  \A p \in Procs :
    Answered(p) =>
      /\ ~In2xx(reply[p].resp.StatusCode)
           => /\ ret[p].result.IsError
              /\ Contains(ret[p].result.Text, reply[p].resp.Status)
              /\ Contains(ret[p].result.Text, reply[p].resp.Body)
      /\ In2xx(reply[p].resp.StatusCode)
           => ~HasPrefix(ret[p].result.Text, <<"A", "B", "S", " ", "A", "P", "I", " ", "r", "e", "t", "u", "r", "n", "e", "d", " ">>)

\* C9, amended: every status outside [200, 300) yields an error whose message
\* is "ABS API returned <status>: " followed by the bytes of the response
\* body that were read (the whole body when the read does not fail); a status
\* inside never yields this error.
C9_UpstreamError ==
  \A p \in Procs :
    Answered(p) =>
      /\ ~In2xx(reply[p].resp.StatusCode)
           => /\ ret[p].result.IsError
              /\ ret[p].result.Text =
                   <<"A", "B", "S", " ", "A", "P", "I", " ", "r", "e", "t", "u", "r", "n", "e", "d", " ">> \o Itoa(reply[p].resp.StatusCode) \o <<" ">>
                   \o StatusText(reply[p].resp.StatusCode) \o <<":", " ">>
                   \o SubSeq(reply[p].resp.Body, 1, reply[p].resp.arrived)
              /\ WholeBody(p) => Contains(ret[p].result.Text, reply[p].resp.Body)
      /\ In2xx(reply[p].resp.StatusCode)
           => ~HasPrefix(ret[p].result.Text, <<"A", "B", "S", " ", "A", "P", "I", " ", "r", "e", "t", "u", "r", "n", "e", "d", " ">>)

C9_Witness ==
  \E p \in Procs :
    /\ Answered(p)
    /\ wire[p][1].method = "POST"
    /\ reply[p].resp.StatusCode = 300
    /\ WholeBody(p)
    /\ ret[p].result.IsError
    /\ ret[p].result.Text = <<"A", "B", "S", " ", "A", "P", "I", " ", "r", "e", "t", "u", "r", "n", "e", "d", " ", "3", "0", "0", " ", "M", "u", "l", "t", "i", "p", "l", "e", " ", "C", "h", "o", "i", "c", "e", "s", ":", " ", " ", "b">>

\* the invocation failed: it returned without a request, the transport
\* failed, the status is outside [200, 300), or the body could not be read
Failed(p) ==
  \/ ~Sent(p)
  \/ ~reply[p].err.isNil
  \/ ~In2xx(reply[p].resp.StatusCode)
  \/ ~WholeBody(p)

\* C10: every failure reaches the caller as a tool result flagged as an error
\* that carries the failure's message, the handler's error return is nil, and
\* a result is flagged as an error only for a failure.
C10_FailuresAreErrorResults ==
  \A p \in Procs :
    Done(p) =>
      /\ ret[p].err.isNil
      /\ ret[p].result.IsError <=> Failed(p)
      /\ ~ConfigComplete(p)
           => ret[p].result.Text \in {MsgBaseURLRequired, MsgTokenRequired}
      /\ (ConfigComplete(p) /\ Absent(p) # {})
           => \E k \in Absent(p) : ret[p].result.Text = MissingText(k)
      /\ (Sent(p) /\ ~reply[p].err.isNil)
           => ret[p].result.Text = <<"c", "a", "l", "l", " ", "A", "B", "S", " ", "A", "P", "I", ":", " ">> \o reply[p].err.msg
      /\ (Answered(p) /\ ~In2xx(reply[p].resp.StatusCode))
           => /\ HasPrefix(ret[p].result.Text, <<"A", "B", "S", " ", "A", "P", "I", " ", "r", "e", "t", "u", "r", "n", "e", "d", " ">>)
              /\ Contains(ret[p].result.Text, reply[p].resp.Status)
      /\ (Answered(p) /\ In2xx(reply[p].resp.StatusCode) /\ ~WholeBody(p))
           => ret[p].result.Text = <<"r", "e", "a", "d", " ", "r", "e", "s", "p", "o", "n", "s", "e", ":", " ">> \o reply[p].resp.readErr.msg

C10_Witness ==
  \E p \in Procs :
    /\ Done(p)
    /\ Sent(p)
    /\ ~reply[p].err.isNil
    /\ ret[p].result.IsError
    /\ ret[p].err.isNil
    /\ ret[p].result.Text = <<"c", "a", "l", "l", " ", "A", "B", "S", " ", "A", "P", "I", ":", " ", "c", "o", "n", "t", "e", "x", "t", " ", "d", "e", "a", "d", "l", "i", "n", "e", " ", "e", "x", "c", "e", "e", "d", "e", "d">>

Cancelled(p) == ctx[p] = "cancelled"

\* C11: when the context is cancelled before the upstream response arrives,
\* the transport call ends with an error, never a success, and the handler
\* returns a failure result; the invocation does not wait for ever.
C11_CancelEndsInFailure ==
  /\ [](\A p \in Procs :
          (Done(p) /\ Cancelled(p))
            => /\ ~reply[p].err.isNil
               /\ ret[p].result.IsError
               /\ ret[p].result.Text = <<"c", "a", "l", "l", " ", "A", "B", "S", " ", "A", "P", "I", ":", " ">> \o reply[p].err.msg)
  /\ \A p \in Procs :
       (pc[p] = "waiting" /\ Cancelled(p)) ~> (Done(p) /\ Cancelled(p) /\ ret[p].result.IsError)

C11_Witness ==
  \E p \in Procs :
    /\ Done(p)
    /\ Cancelled(p)
    /\ Sent(p)
    /\ ret[p].result.IsError
    /\ ret[p].result.Text = <<"c", "a", "l", "l", " ", "A", "B", "S", " ", "A", "P", "I", ":", " ", "c", "o", "n", "t", "e", "x", "t", " ", "c", "a", "n", "c", "e", "l", "e", "d">>

\* C12: an invocation issues at most one outbound request; after a failed
\* attempt (transport failure or a status outside [200, 300)) no second
\* request is issued, and that failure is the outcome the handler returns.
C12_AtMostOneRequest ==
  /\ [](\A p \in Procs :
          /\ Len(wire[p]) <= 1
          /\ (Done(p) /\ Sent(p) /\ ~reply[p].err.isNil)
               => /\ ret[p].result.IsError
                  /\ ret[p].result.Text = <<"c", "a", "l", "l", " ", "A", "B", "S", " ", "A", "P", "I", ":", " ">> \o reply[p].err.msg
          /\ (Answered(p) /\ ~In2xx(reply[p].resp.StatusCode))
               => /\ ret[p].result.IsError
                  /\ HasPrefix(ret[p].result.Text,
                               <<"A", "B", "S", " ", "A", "P", "I", " ", "r", "e", "t", "u", "r", "n", "e", "d", " ">> \o reply[p].resp.Status \o <<":", " ">>))
  /\ [][\A p \in Procs :
          /\ Sent(p) => wire'[p] \in {wire[p], <<>>}
          /\ Done(p) => /\ pc'[p] \in {"done", "idle"}
                        /\ pc'[p] = "done" => ret'[p] = ret[p]]_vars

C12_Witness ==
  \E p \in Procs :
    /\ Answered(p)
    /\ Len(wire[p]) = 1
    /\ reply[p].resp.StatusCode = 404
    /\ ret[p].result.IsError
    /\ HasPrefix(ret[p].result.Text, <<"A", "B", "S", " ", "A", "P", "I", " ", "r", "e", "t", "u", "r", "n", "e", "d", " ", "4", "0", "4", " ", "N", "o", "t", " ", "F", "o", "u", "n", "d", ":", " ">>)

Omits(p, k) == ArgStr(p, k) = <<>>

\* C13: configuration is derived per invocation and never kept: whatever
\* earlier invocations were given, an invocation that omits base_url (token)
\* resolves it from the environment alone, and no step of a handler changes
\* the environment.
C13_ConfigurationNotPersisted ==
  /\ [](\A p \in Procs :
          /\ (Sent(p) /\ Omits(p, "base_url"))
               => /\ env.ABS_BASE_URL # <<>>
                  /\ wire[p][1].url =
                       IF call[p].tool \in RootTools
                       THEN TrimSuffix(env.ABS_BASE_URL, <<"/">>) \o locals[p].path
                       ELSE env.ABS_BASE_URL \o <<"/", "a", "p", "i">> \o locals[p].path
          /\ (Sent(p) /\ Omits(p, "token"))
               => /\ env.ABS_API_KEY # <<>>
                  /\ wire[p][1].header["Authorization"] = <<"B", "e", "a", "r", "e", "r", " ">> \o env.ABS_API_KEY
          /\ (Active(p) /\ Omits(p, "base_url") /\ env.ABS_BASE_URL = <<>>)
               => /\ ~Sent(p)
                  /\ ret[p].result = NewToolResultError(MsgBaseURLRequired)
          /\ (Active(p) /\ WantBase(p) # <<>> /\ Omits(p, "token") /\ env.ABS_API_KEY = <<>>)
               => /\ ~Sent(p)
                  /\ ret[p].result = NewToolResultError(MsgTokenRequired))
  /\ [][env' = env]_vars

\* after an invocation that was given its own base_url and token, one that
\* omits both sends its request to the environment's server with the
\* environment's key
C13_Witness ==
  \E p \in Procs :
    /\ passed
    /\ Sent(p)
    /\ ~Present(p, "base_url")
    /\ ~Present(p, "token")
    /\ wire[p][1].url = <<"e", "/", "/", "a", "p", "i", "/", "l", "i", "b", "r", "a", "r", "i", "e", "s">>
    /\ wire[p][1].header["Authorization"] = <<"B", "e", "a", "r", "e", "r", " ", "k">>

\* everything the model holds of one invocation
Slot(p) == <<pc[p], call[p], ctx[p], locals[p], wire[p], reply[p], ret[p]>>

\* the path of the invocation's tool, from its own arguments
OwnPath(p) ==
  CASE Tools[call[p].tool].handler = "byID" -> IDPath(p)
    [] Tools[call[p].tool].handler = "createBackup" -> <<"/", "b", "a", "c", "k", "u", "p", "s">>
    [] OTHER -> Tools[call[p].tool].path

\* the request of the invocation, from its own arguments and the environment
OwnRequest(p) ==
  [method |-> IF Tools[call[p].tool].handler = "createBackup" THEN "POST" ELSE "GET",
   url |-> WantBase(p) \o <<"/", "a", "p", "i">> \o OwnPath(p),
   header |-> IF Tools[call[p].tool].handler = "createBackup"
              THEN ("Authorization" :> (<<"B", "e", "a", "r", "e", "r", " ">> \o WantToken(p)))
                   @@ ("Content-Type" :> <<"a", "p", "p", "l", "i", "c", "a", "t", "i", "o", "n", "/", "j", "s", "o", "n">>)
              ELSE ("Authorization" :> (<<"B", "e", "a", "r", "e", "r", " ">> \o WantToken(p))),
   body |-> NoBody]

\* the result of the invocation, from its own arguments, the environment and
\* what its own request met
OwnResult(p) ==
  IF WantBase(p) = <<>> THEN NewToolResultError(MsgBaseURLRequired)
  ELSE IF WantToken(p) = <<>> THEN NewToolResultError(MsgTokenRequired)
  ELSE IF ~reply[p].err.isNil THEN NewToolResultError(<<"c", "a", "l", "l", " ", "A", "B", "S", " ", "A", "P", "I", ":", " ">> \o reply[p].err.msg)
  ELSE IF ~In2xx(reply[p].resp.StatusCode)
  THEN NewToolResultError(<<"A", "B", "S", " ", "A", "P", "I", " ", "r", "e", "t", "u", "r", "n", "e", "d", " ">> \o reply[p].resp.Status \o <<":", " ">>
                          \o SubSeq(reply[p].resp.Body, 1, reply[p].resp.arrived))
  ELSE IF ~WholeBody(p)
  THEN NewToolResultError(<<"r", "e", "a", "d", " ", "r", "e", "s", "p", "o", "n", "s", "e", ":", " ">> \o reply[p].resp.readErr.msg)
  ELSE NewToolResultText(reply[p].resp.Body)

\* C14: invocations in flight together are independent: the request each one
\* builds and the result each one returns are determined by its own
\* arguments, the environment and its own upstream response, and a step of
\* one invocation leaves every other invocation as it was.
C14_ConcurrentInvocationsIndependent ==
  /\ [](\A p \in Procs :
          /\ Active(p) => (Sent(p) <=> ConfigComplete(p))
          /\ Sent(p) => wire[p] = <<OwnRequest(p)>>
          /\ Done(p) => ret[p] = [result |-> OwnResult(p), err |-> NilErr])
  /\ [][\A p, q \in Procs : p # q => (Slot(p)' = Slot(p) \/ Slot(q)' = Slot(q))]_vars

\* two invocations in flight together, with different servers, keys and
\* paths; the one called with its own configuration has got its answer while
\* the other still waits
C14_Witness ==
  \E p, q \in Procs :
    /\ p # q
    /\ call[p].tool = "author"
    /\ call[q].tool = "libraries"
    /\ pc[q] = "waiting"
    /\ Answered(p)
    /\ reply[p].resp.StatusCode = 200
    /\ wire[p][1].url = <<"h", "/", "a", "p", "i", "/", "a", "u", "t", "h", "o", "r", "s", "/", "x">>
    /\ wire[q][1].url = <<"e", "/", "/", "a", "p", "i", "/", "l", "i", "b", "r", "a", "r", "i", "e", "s">>
    /\ wire[q][1].header["Authorization"] = <<"B", "e", "a", "r", "e", "r", " ", "k">>
    /\ ret[p].result = NewToolResultText(<<" ", "b">>)
    /\ ret[q] = NoRet

\* C15: the library tool called with library_id "lib123" and items true, the
\* configuration being complete with base B, requests
\* B/api/libraries/lib123/items and not the base path B/api/libraries/lib123.
C15_LibraryItems ==
  \A p \in Procs :
    (/\ Active(p)
     /\ call[p].tool = "library"
     /\ ConfigComplete(p)
     /\ ArgStr(p, "library_id") = <<"l", "i", "b", "1", "2", "3">>
     /\ IsTrue(p, "items"))
      => /\ Sent(p)
         /\ wire[p][1].method = "GET"
         /\ wire[p][1].url = WantBase(p) \o <<"/", "a", "p", "i", "/", "l", "i", "b", "r", "a", "r", "i", "e", "s", "/", "l", "i", "b", "1", "2", "3", "/", "i", "t", "e", "m", "s">>
         /\ wire[p][1].url # WantBase(p) \o <<"/", "a", "p", "i", "/", "l", "i", "b", "r", "a", "r", "i", "e", "s", "/", "l", "i", "b", "1", "2", "3">>

C15_Witness ==
  \E p \in Procs :
    /\ Sent(p)
    /\ call[p].tool = "library"
    /\ call[p].args = [base_url |-> <<"h">>, token |-> <<"t">>, library_id |-> <<"l", "i", "b", "1", "2", "3">>, items |-> TRUE]
    /\ wire[p][1].url = <<"h", "/", "a", "p", "i", "/", "l", "i", "b", "r", "a", "r", "i", "e", "s", "/", "l", "i", "b", "1", "2", "3", "/", "i", "t", "e", "m", "s">>

\* the positions of the commas of s, and the ends of its segments
Commas(s) == {i \in 1 .. Len(s) : s[i] = ","}

\* the n-th comma-separated segment of s
Segment(s, n) ==
  LET cuts == {0} \cup Commas(s) \cup {Len(s) + 1}
      from == CHOOSE i \in cuts : Cardinality({j \in cuts : j < i}) = n - 1
      to == CHOOSE i \in cuts : Cardinality({j \in cuts : j < i}) = n
  IN SubSeq(s, from + 1, to - 1)

\* s without the white space around it
Trimmed(s) ==
  LET black == {i \in 1 .. Len(s) : s[i] \notin {" ", "\t", "\n", "\r"}}
  IN IF black = {} THEN <<>>
     ELSE SubSeq(s, CHOOSE i \in black : \A j \in black : i <= j,
                    CHOOSE i \in black : \A j \in black : j <= i)

\* the JSON text of the folder list: one object per segment, in order
RECURSIVE FolderEntries(_, _)
FolderEntries(s, n) ==
  IF n > Cardinality(Commas(s)) + 1 THEN <<>>
  ELSE (IF n > 1 THEN <<",">> ELSE <<>>)
       \o <<"{", "\"", "f", "u", "l", "l", "P", "a", "t", "h", "\"", ":", "\"">> \o Trimmed(Segment(s, n)) \o <<"\"", "}">>
       \o FolderEntries(s, n + 1)

\* C16: create_library splits the folders string at its commas into a list
\* of path objects, one per segment in order, each holding the segment with
\* the surrounding white space trimmed; for "/a, /b" the body that is POSTed
\* has exactly the two entries "/a" and "/b".
C16_FoldersSplit ==
  \A p \in Procs :
    (Sent(p) /\ call[p].tool = "create_library")
      => /\ wire[p][1].method = "POST"
         /\ wire[p][1].url = WantBase(p) \o <<"/", "a", "p", "i", "/", "l", "i", "b", "r", "a", "r", "i", "e", "s">>
         /\ wire[p][1].body.present
         /\ HasPrefix(wire[p][1].body.bytes,
                      <<"{", "\"", "f", "o", "l", "d", "e", "r", "s", "\"", ":", "[">> \o FolderEntries(call[p].args.folders, 1) \o <<"]", ",">>)
         /\ call[p].args.folders = <<"/", "a", ",", " ", "/", "b">>
              => HasPrefix(wire[p][1].body.bytes,
                           <<"{", "\"", "f", "o", "l", "d", "e", "r", "s", "\"", ":", "[", "{", "\"", "f", "u", "l", "l", "P", "a", "t", "h", "\"", ":", "\"", "/", "a", "\"", "}", ",", "{", "\"", "f", "u", "l", "l", "P", "a", "t", "h", "\"", ":", "\"", "/", "b", "\"", "}", "]", ",">>)

C16_Witness ==
  \E p \in Procs :
    /\ Sent(p)
    /\ call[p].tool = "create_library"
    /\ call[p].args.folders = <<"/", "a", ",", " ", "/", "b">>
    /\ wire[p][1].body.bytes =
         <<"{", "\"", "f", "o", "l", "d", "e", "r", "s", "\"", ":", "[", "{", "\"", "f", "u", "l", "l", "P", "a", "t", "h", "\"", ":", "\"", "/", "a", "\"", "}", ",", "{", "\"", "f", "u", "l", "l", "P", "a", "t", "h", "\"", ":", "\"", "/", "b", "\"", "}", "]", ",", "\"", "m", "e", "d", "i", "a", "T", "y", "p", "e", "\"", ":", "\"", "y", "\"", ",", "\"", "n", "a", "m", "e", "\"", ":", "\"", "y", "\"", "}">>

\* the JSON text update_progress is to send for the invocation's arguments
ProgressBody(p) ==
  Concat(<<<<"{", "\"", "c", "u", "r", "r", "e", "n", "t", "T", "i", "m", "e", "\"", ":">>, Itoa(call[p].args.progress),
           IF Present(p, "duration") /\ call[p].args.duration > 0
           THEN <<",", "\"", "d", "u", "r", "a", "t", "i", "o", "n", "\"", ":">> \o Itoa(call[p].args.duration) ELSE <<>>,
           IF ArgStr(p, "episode_id") # <<>>
           THEN <<",", "\"", "e", "p", "i", "s", "o", "d", "e", "I", "d", "\"", ":">> \o Quote(ArgStr(p, "episode_id")) ELSE <<>>,
           IF IsTrue(p, "is_finished") THEN <<",", "\"", "i", "s", "F", "i", "n", "i", "s", "h", "e", "d", "\"", ":", "t", "r", "u", "e">> ELSE <<>>,
           <<",", "\"", "l", "i", "b", "r", "a", "r", "y", "I", "t", "e", "m", "I", "d", "\"", ":">>, Quote(call[p].args.item_id), <<"}">>>>)

\* C17: the body update_progress POSTs always holds the item identifier and
\* the elapsed time; it holds the duration only when one is provided (and
\* positive), the finished flag only when it is true, and the episode
\* identifier only when one is present.
C17_ProgressPayload ==
  \A p \in Procs :
    (Sent(p) /\ call[p].tool = "update_progress")
      => /\ wire[p][1].method = "POST"
         /\ wire[p][1].url = WantBase(p) \o <<"/", "a", "p", "i", "/", "m", "e", "/", "p", "r", "o", "g", "r", "e", "s", "s">>
         /\ wire[p][1].body.present
         /\ Contains(wire[p][1].body.bytes, <<"\"", "l", "i", "b", "r", "a", "r", "y", "I", "t", "e", "m", "I", "d", "\"", ":">> \o Quote(call[p].args.item_id))
         /\ Contains(wire[p][1].body.bytes, <<"\"", "c", "u", "r", "r", "e", "n", "t", "T", "i", "m", "e", "\"", ":">> \o Itoa(call[p].args.progress))
         /\ Contains(wire[p][1].body.bytes, <<"\"", "d", "u", "r", "a", "t", "i", "o", "n", "\"">>)
              <=> (Present(p, "duration") /\ call[p].args.duration > 0)
         /\ Contains(wire[p][1].body.bytes, <<"\"", "i", "s", "F", "i", "n", "i", "s", "h", "e", "d", "\"">>) <=> IsTrue(p, "is_finished")
         /\ Contains(wire[p][1].body.bytes, <<"\"", "e", "p", "i", "s", "o", "d", "e", "I", "d", "\"">>) <=> (ArgStr(p, "episode_id") # <<>>)
         /\ wire[p][1].body.bytes = ProgressBody(p)

C17_Witness ==
  \E p \in Procs :
    /\ Sent(p)
    /\ call[p].tool = "update_progress"
    /\ Present(p, "is_finished") /\ ~IsTrue(p, "is_finished")
    /\ Present(p, "duration")
    /\ ~Present(p, "episode_id")
    /\ wire[p][1].body.bytes = <<"{", "\"", "c", "u", "r", "r", "e", "n", "t", "T", "i", "m", "e", "\"", ":", "5", ",", "\"", "d", "u", "r", "a", "t", "i", "o", "n", "\"", ":", "5", ",", "\"", "l", "i", "b", "r", "a", "r", "y", "I", "t", "e", "m", "I", "d", "\"", ":", "\"", "x", "\"", "}">>

\* the sub-views of me in their order of precedence, and whether each is set
MeViews == <<"listening-sessions", "listening-stats", "items-in-progress", "progress">>

MeSet(p, view) ==
  IF view = "progress" THEN ArgStr(p, "progress_item_id") # <<>> ELSE IsTrue(p, view)

MeViewPath(p, view) ==
  IF view = "progress"
  THEN <<"/", "m", "e", "/", "p", "r", "o", "g", "r", "e", "s", "s", "/">> \o ArgStr(p, "progress_item_id")
       \o (IF ArgStr(p, "progress_episode_id") # <<>>
           THEN <<"/">> \o ArgStr(p, "progress_episode_id") ELSE <<>>)
  ELSE <<"/", "m", "e", "/">> \o NameText(view)

\* C18: the me tool takes exactly one path: that of the first sub-view that
\* is set in the order listening-sessions, listening-stats,
\* items-in-progress, item progress, whatever later ones are set; item
\* progress with an item and an episode identifier is
\* /me/progress/<item>/<episode>; with no sub-view set the path is /me.
C18_MePrecedence ==
  \A p \in Procs :
    (Sent(p) /\ call[p].tool = "me")
      => LET set == {i \in 1 .. Len(MeViews) : MeSet(p, MeViews[i])}
         IN /\ wire[p][1].method = "GET"
            /\ wire[p][1].url = WantBase(p) \o <<"/", "a", "p", "i">> \o locals[p].path
            /\ set = {} => locals[p].path = <<"/", "m", "e">>
            /\ set # {}
                 => locals[p].path =
                      MeViewPath(p, MeViews[CHOOSE i \in set : \A j \in set : i <= j])
            /\ (set = {4} /\ ArgStr(p, "progress_episode_id") # <<>>)
                 => locals[p].path = <<"/", "m", "e", "/", "p", "r", "o", "g", "r", "e", "s", "s", "/">> \o call[p].args.progress_item_id
                                     \o <<"/">> \o call[p].args.progress_episode_id

C18_Witness ==
  \E p \in Procs :
    /\ Sent(p)
    /\ call[p].tool = "me"
    /\ IsTrue(p, "listening-stats")
    /\ IsTrue(p, "items-in-progress")
    /\ ArgStr(p, "progress_item_id") = <<"y">>
    /\ ArgStr(p, "progress_episode_id") = <<"y">>
    /\ locals[p].path = <<"/", "m", "e", "/", "l", "i", "s", "t", "e", "n", "i", "n", "g", "-", "s", "t", "a", "t", "s">>

\* C19: a request carries the header Content-Type: application/json only
\* when it carries a body: a GET, and a POST issued with no payload
\* (check_podcast_episodes, create_backup), carry no Content-Type header.
C19_ContentTypeOnlyWithBody ==
  \A p \in Procs :
    Sent(p) =>
      /\ "Content-Type" \in DOMAIN wire[p][1].header => wire[p][1].body.present
      /\ wire[p][1].method = "GET" => "Content-Type" \notin DOMAIN wire[p][1].header
      /\ call[p].tool \in {"check_podcast_episodes", "create_backup"}
           => /\ ~wire[p][1].body.present
              /\ "Content-Type" \notin DOMAIN wire[p][1].header

\* C20: every request a handler issues carries the header Authorization
\* with the value "Bearer " followed by the resolved token, unchanged; the
\* transport leaves the header out only for an empty token, and no handler
\* calls the transport with one.
C20_AuthorizationHeader ==
  /\ \A p \in Procs :
       Sent(p) =>
         /\ WantToken(p) # <<>>
         /\ locals[p].token = WantToken(p)
         /\ "Authorization" \in DOMAIN wire[p][1].header
         /\ wire[p][1].header["Authorization"] = <<"B", "e", "a", "r", "e", "r", " ">> \o WantToken(p)
  /\ \A token \in EnvTokens \cup TokenArgs :
       /\ ("Authorization" \in DOMAIN absGETRequest(<<"h">>, token, <<"/", "p", "i", "n", "g">>).req.header)
            <=> (token # <<>>)
       /\ ("Authorization" \in DOMAIN absPOSTRequest(<<"h">>, token, <<"/", "b", "a", "c", "k", "u", "p", "s">>, NilPayload).req.header)
            <=> (token # <<>>)

C20_Witness ==
  \E p \in Procs :
    /\ Sent(p)
    /\ call[p].tool = "add_to_playlist"
    /\ wire[p][1].method = "POST"
    /\ ArgStr(p, "token") = <<"t">>
    /\ env.ABS_API_KEY = <<"k">>
    /\ wire[p][1].header["Authorization"] = <<"B", "e", "a", "r", "e", "r", " ", "t">>

\* base URLs and paths the transport is probed with: no, one and two
\* trailing slashes; characters a URL would have escaped or normalised
ProbeBases == {<<"h">>, <<"h", "/">>, <<"h", "/", "/">>, <<"h", "/", "a", "p", "i">>}

ProbePaths == {<<"/", "p", "i", "n", "g">>, <<"/", "a", " ", "b">>, <<"/", "a", "/", ".", ".", "/", "b">>, <<"/", "a", "%", "2", "F", "b">>, <<"/", "/", "a", "?", "q", "=", "1", "#", "f">>, <<>>}

\* s without its last character when that is a slash
DropOneSlash(s) == IF s # <<>> /\ s[Len(s)] = "/" THEN SubSeq(s, 1, Len(s) - 1) ELSE s

\* C21: absGET and absPOST build the request URL as the base URL they are
\* given with one trailing slash removed, if it has one, followed by the path
\* exactly as given, neither part escaped or normalised: in every request
\* that goes out, and for the probe inputs (the two functions are applied to
\* them while no invocation is in flight).
C21_URLConcatenation ==
  /\ \A p \in Procs :
       Sent(p) => wire[p][1].url = DropOneSlash(locals[p].baseURL) \o locals[p].path
  /\ (\A p \in Procs : pc[p] = "idle")
       => \A b \in ProbeBases, path \in ProbePaths :
            /\ absGETRequest(b, <<"t">>, path).err.isNil
            /\ absGETRequest(b, <<"t">>, path).req.url = DropOneSlash(b) \o path
            /\ absPOSTRequest(b, <<"t">>, path, NilPayload).err.isNil
            /\ absPOSTRequest(b, <<"t">>, path, NilPayload).req.url = DropOneSlash(b) \o path

C21_Witness ==
  \E p \in Procs :
    /\ Sent(p)
    /\ call[p].tool = "healthcheck"
    /\ locals[p].baseURL = <<"e", "/">>
    /\ locals[p].path = <<"/", "h", "e", "a", "l", "t", "h", "c", "h", "e", "c", "k">>
    /\ wire[p][1].url = <<"e", "/", "h", "e", "a", "l", "t", "h", "c", "h", "e", "c", "k">>

WriteTools ==
  {"create_library", "create_collection", "add_to_collection", "create_playlist",
   "add_to_playlist", "check_podcast_episodes", "create_backup", "update_progress"}

\* the write tools whose handler hands the transport no payload
BodilessWriteTools == {"check_podcast_episodes", "create_backup"}

\* the bytes are the text of a JSON object
IsJSONObject(bytes) == Len(bytes) >= 2 /\ bytes[1] = "{" /\ bytes[Len(bytes)] = "}"

\* C22 as stated: every read tool issues only GET requests and every write
\* tool only POST requests with a JSON body; no tool issues another method.
C22_Original ==
  \A p \in Procs :
    Sent(p) =>
      /\ wire[p][1].method \in {"GET", "POST"}
      /\ call[p].tool \notin WriteTools
           => wire[p][1].method = "GET" /\ ~wire[p][1].body.present
      /\ call[p].tool \in WriteTools
           => /\ wire[p][1].method = "POST"
              /\ wire[p][1].body.present
              /\ IsJSONObject(wire[p][1].body.bytes)

\* C22, amended: every read tool issues only GET requests, without a body,
\* and every write tool only POST requests; the POST carries a JSON body for
\* create_library, create_collection, add_to_collection, create_playlist,
\* add_to_playlist and update_progress, and no body for
\* check_podcast_episodes and create_backup; no tool issues another method.
C22_Methods ==
  \A p \in Procs :
    Sent(p) =>
      /\ wire[p][1].method \in {"GET", "POST"}
      /\ call[p].tool \notin WriteTools
           => wire[p][1].method = "GET" /\ ~wire[p][1].body.present
      /\ call[p].tool \in WriteTools
           => /\ wire[p][1].method = "POST"
              /\ wire[p][1].body.present <=> (call[p].tool \notin BodilessWriteTools)
              /\ wire[p][1].body.present => IsJSONObject(wire[p][1].body.bytes)

C22_Witness ==
  \E p \in Procs :
    /\ Sent(p)
    /\ call[p].tool = "check_podcast_episodes"
    /\ wire[p][1].method = "POST"
    /\ wire[p][1].url = <<"h", "/", "a", "p", "i", "/", "p", "o", "d", "c", "a", "s", "t", "s", "/", "x", "/", "c", "h", "e", "c", "k", "-", "n", "e", "w", "-", "e", "p", "i", "s", "o", "d", "e", "s">>
    /\ wire[p][1].body = NoBody

CollectionTools == {"create_collection", "create_playlist", "add_to_collection", "add_to_playlist"}

\* the first required argument, in the handler's order, that is absent
FirstAbsent(p) ==
  LET req == RequiredArgs(call[p].tool)
      at == CHOOSE i \in 1 .. Len(req) :
              /\ ~Present(p, req[i])
              /\ \A j \in 1 .. (i - 1) : Present(p, req[j])
  IN req[at]

\* ,"key":"value" when the optional argument is a non-empty string
OptionalMember(p, k, key) ==
  IF ArgStr(p, k) # <<>> THEN Concat(<<Quote(key), <<":">>, Quote(ArgStr(p, k)), <<",">> >>) ELSE <<>>

\* the JSON text each of the four tools is to send for its arguments
CollectionBody(p) ==
  CASE call[p].tool \in {"create_collection", "create_playlist"} ->
         Concat(<<<<"{">>, OptionalMember(p, "description", <<"d", "e", "s", "c", "r", "i", "p", "t", "i", "o", "n">>),
                  <<"\"", "l", "i", "b", "r", "a", "r", "y", "I", "d", "\"", ":">>, Quote(call[p].args.library_id),
                  <<",", "\"", "n", "a", "m", "e", "\"", ":">>, Quote(call[p].args.name), <<"}">>>>)
    [] call[p].tool = "add_to_collection" ->
         Concat(<<<<"{", "\"", "i", "d", "\"", ":">>, Quote(call[p].args.book_id), <<"}">>>>)
    [] call[p].tool = "add_to_playlist" ->
         Concat(<<<<"{">>, OptionalMember(p, "episode_id", <<"e", "p", "i", "s", "o", "d", "e", "I", "d">>),
                  <<"\"", "l", "i", "b", "r", "a", "r", "y", "I", "t", "e", "m", "I", "d", "\"", ":">>, Quote(call[p].args.item_id), <<"}">>>>)

\* C23: create_collection, create_playlist, add_to_collection and
\* add_to_playlist validate every required argument before the POST (one
\* that is missing ends the call with a failure and no request); the body
\* always holds the required fields, and an optional field (description,
\* episode_id) is in the body if and only if it was supplied non-empty.
C23_CollectionWrites ==
  \A p \in Procs :
    (Active(p) /\ call[p].tool \in CollectionTools /\ ConfigComplete(p))
      => /\ Absent(p) # {}
              => /\ ~Sent(p)
                 /\ Done(p)
                 /\ ret[p].result = NewToolResultError(MissingText(FirstAbsent(p)))
         /\ Sent(p)
              => /\ Absent(p) = {}
                 /\ wire[p][1].method = "POST"
                 /\ wire[p][1].body.present
                 /\ wire[p][1].body.bytes = CollectionBody(p)
                 /\ Contains(wire[p][1].body.bytes, <<"\"", "d", "e", "s", "c", "r", "i", "p", "t", "i", "o", "n", "\"">>)
                      <=> (ArgStr(p, "description") # <<>>)
                 /\ Contains(wire[p][1].body.bytes, <<"\"", "e", "p", "i", "s", "o", "d", "e", "I", "d", "\"">>)
                      <=> (ArgStr(p, "episode_id") # <<>>)

C23_Witness ==
  \E p \in Procs :
    /\ Sent(p)
    /\ call[p].tool = "create_playlist"
    /\ wire[p][1].url = <<"h", "/", "a", "p", "i", "/", "p", "l", "a", "y", "l", "i", "s", "t", "s">>
    /\ wire[p][1].body.bytes =
         <<"{", "\"", "d", "e", "s", "c", "r", "i", "p", "t", "i", "o", "n", "\"", ":", "\"", "y", "\"", ",", "\"", "l", "i", "b", "r", "a", "r", "y", "I", "d", "\"", ":", "\"", "l", "i", "b", "1", "2", "3", "\"", ",", "\"", "n", "a", "m", "e", "\"", ":", "\"", "y", "\"", "}">>

\* C24: every invocation ends, with exactly one outcome: a success result
\* that carries the response body, or a failure result that carries a
\* message; never both and never neither.
C24_ExactlyOneOutcome ==
  /\ [](\A p \in Procs :
          Done(p) =>
            /\ ret[p].err.isNil
            /\ ret[p].result.IsError <=> Failed(p)
            /\ ret[p].result.IsError => ret[p].result.Text # <<>>
            /\ ~ret[p].result.IsError
                 => /\ Answered(p)
                    /\ In2xx(reply[p].resp.StatusCode)
                    /\ ret[p].result.Text = reply[p].resp.Body)
  /\ \A p \in Procs : Active(p) ~> Done(p)

C24_Witness ==
  \E p \in Procs :
    /\ Answered(p)
    /\ call[p].tool = "sessions"
    /\ reply[p].resp.StatusCode = 200
    /\ WholeBody(p)
    /\ ret[p] = [result |-> NewToolResultText(<<" ", "b">>), err |-> NilErr]

\* the texts of the failures for a required argument of the tool
MissingTexts(p) == {MissingText(k) : k \in Range(RequiredArgs(call[p].tool))}

\* C25: in a handler with a required argument the configuration is resolved
\* before the argument is validated: with the configuration incomplete and a
\* required argument missing, the failure is the configuration failure, and
\* a missing-argument failure is returned only with a complete configuration.
C25_ConfigurationBeforeArguments ==
  \A p \in Procs :
    (Done(p) /\ RequiredArgs(call[p].tool) # <<>>)
      => /\ (~ConfigComplete(p) /\ Absent(p) # {})
              => /\ ~Sent(p)
                 /\ ret[p].result =
                      NewToolResultError(IF WantBase(p) = <<>> THEN MsgBaseURLRequired
                                         ELSE MsgTokenRequired)
         /\ ret[p].result.Text \in MissingTexts(p)
              => /\ ConfigComplete(p)
                 /\ Absent(p) # {}
                 /\ ret[p].result.IsError
         /\ (ConfigComplete(p) /\ Absent(p) # {})
              => ret[p].result.Text \in MissingTexts(p)

C25_Witness ==
  \E p \in Procs :
    /\ Done(p)
    /\ call[p].tool = "series"
    /\ ~Present(p, "series_id")
    /\ WantBase(p) # <<>>
    /\ WantToken(p) = <<>>
    /\ ret[p].result = NewToolResultError(MsgTokenRequired)

C27_PodcastPrecedence ==
  \A p \in Procs :
    (Sent(p) /\ call[p].tool = "podcast")
      => LET id == call[p].args.podcast_id
         IN /\ wire[p][1].method = "GET"
            /\ wire[p][1].url = WantBase(p) \o <<"/", "a", "p", "i">> \o locals[p].path
            /\ locals[p].path =
                 <<"/", "p", "o", "d", "c", "a", "s", "t", "s", "/">> \o id \o
                   (IF IsTrue(p, "downloads") THEN <<"/", "d", "o", "w", "n", "l", "o", "a", "d", "s">>
                    ELSE IF IsTrue(p, "search-episode") THEN <<"/", "s", "e", "a", "r", "c", "h", "-", "e", "p", "i", "s", "o", "d", "e">>
                    ELSE IF ArgStr(p, "episode_id") # <<>>
                    THEN <<"/", "e", "p", "i", "s", "o", "d", "e", "/">> \o ArgStr(p, "episode_id")
                    ELSE <<>>)
            /\ (IsTrue(p, "downloads") \/ IsTrue(p, "search-episode"))
                 => ~Contains(locals[p].path, <<"/", "e", "p", "i", "s", "o", "d", "e", "/">>)

C27_Witness ==
  \E p \in Procs :
    /\ Sent(p)
    /\ call[p].tool = "podcast"
    /\ Present(p, "downloads") /\ ~IsTrue(p, "downloads")
    /\ IsTrue(p, "search-episode")
    /\ ArgStr(p, "episode_id") = <<"y">>
    /\ locals[p].path = <<"/", "p", "o", "d", "c", "a", "s", "t", "s", "/", "x", "/", "s", "e", "a", "r", "c", "h", "-", "e", "p", "i", "s", "o", "d", "e">>

MeFlagTrue(p) ==
  IsTrue(p, "listening-sessions") \/ IsTrue(p, "listening-stats") \/ IsTrue(p, "items-in-progress")

\* the path of me for the invocation's arguments, progress_episode_id left out
MePathWithoutEpisode(p) ==
  IF IsTrue(p, "listening-sessions") THEN <<"/", "m", "e", "/", "l", "i", "s", "t", "e", "n", "i", "n", "g", "-", "s", "e", "s", "s", "i", "o", "n", "s">>
  ELSE IF IsTrue(p, "listening-stats") THEN <<"/", "m", "e", "/", "l", "i", "s", "t", "e", "n", "i", "n", "g", "-", "s", "t", "a", "t", "s">>
  ELSE IF IsTrue(p, "items-in-progress") THEN <<"/", "m", "e", "/", "i", "t", "e", "m", "s", "-", "i", "n", "-", "p", "r", "o", "g", "r", "e", "s", "s">>
  ELSE IF ArgStr(p, "progress_item_id") # <<>>
  THEN <<"/", "m", "e", "/", "p", "r", "o", "g", "r", "e", "s", "s", "/">> \o ArgStr(p, "progress_item_id")
  ELSE <<"/", "m", "e">>

\* C28: in the me tool progress_episode_id has an effect only when
\* progress_item_id is non-empty and none of the three flags is true; with
\* progress_episode_id and no progress_item_id the request is for plain /me,
\* and no failure is returned for it.
C28_EpisodeWithoutItem ==
  \A p \in Procs :
    (Active(p) /\ call[p].tool = "me" /\ ConfigComplete(p))
      => /\ Sent(p)
         /\ (MeFlagTrue(p) \/ ArgStr(p, "progress_item_id") = <<>>)
              => locals[p].path = MePathWithoutEpisode(p)
         /\ locals[p].path # MePathWithoutEpisode(p)
              => /\ ArgStr(p, "progress_episode_id") # <<>>
                 /\ locals[p].path = MePathWithoutEpisode(p) \o <<"/">>
                                       \o ArgStr(p, "progress_episode_id")
         /\ (ArgStr(p, "progress_episode_id") # <<>> /\ ArgStr(p, "progress_item_id") = <<>>
              /\ ~MeFlagTrue(p))
              => /\ locals[p].path = <<"/", "m", "e">>
                 /\ wire[p][1].url = WantBase(p) \o <<"/", "a", "p", "i", "/", "m", "e">>
                 /\ (Answered(p) /\ In2xx(reply[p].resp.StatusCode) /\ WholeBody(p))
                      => ret[p].result = NewToolResultText(reply[p].resp.Body)

C28_Witness ==
  \E p \in Procs :
    /\ Answered(p)
    /\ call[p].tool = "me"
    /\ ArgStr(p, "progress_episode_id") = <<"y">>
    /\ ~Present(p, "progress_item_id")
    /\ ~MeFlagTrue(p)
    /\ wire[p][1].url = <<"h", "/", "a", "p", "i", "/", "m", "e">>
    /\ reply[p].resp.StatusCode = 200
    /\ ~ret[p].result.IsError

\* how often sub occurs in s
Occurrences(s, sub) ==
  Cardinality({i \in 0 .. (Len(s) - Len(sub)) : SubSeq(s, i + 1, i + Len(sub)) = sub})

\* the segments of s that are empty once trimmed
EmptySegments(s) == {n \in 1 .. (Cardinality(Commas(s)) + 1) : Trimmed(Segment(s, n)) = <<>>}

\* C29: the body create_library POSTs has as many folder entries as the
\* folders string has commas, plus one: a segment that is empty or white
\* space (leading, trailing or doubled comma, empty string) is kept as an
\* entry with an empty path, neither dropped nor rejected.
C29_FolderCount ==
  \A p \in Procs :
    (Active(p) /\ call[p].tool = "create_library" /\ ConfigComplete(p) /\ Absent(p) = {})
      => /\ Sent(p)
         /\ Occurrences(wire[p][1].body.bytes, <<"{", "\"", "f", "u", "l", "l", "P", "a", "t", "h", "\"", ":">>)
              = Cardinality(Commas(call[p].args.folders)) + 1
         /\ Occurrences(wire[p][1].body.bytes, <<"{", "\"", "f", "u", "l", "l", "P", "a", "t", "h", "\"", ":", "\"", "\"", "}">>)
              = Cardinality(EmptySegments(call[p].args.folders))

C29_Witness ==
  \E p \in Procs :
    /\ Sent(p)
    /\ call[p].tool = "create_library"
    /\ call[p].args.folders = <<",", " ", ",", ",", "/", "a", ",">>
    /\ Occurrences(wire[p][1].body.bytes, <<"{", "\"", "f", "u", "l", "l", "P", "a", "t", "h", "\"", ":">>) = 5
    /\ HasPrefix(wire[p][1].body.bytes,
                 <<"{", "\"", "f", "o", "l", "d", "e", "r", "s", "\"", ":", "[", "{", "\"", "f", "u", "l", "l", "P", "a", "t", "h", "\"", ":", "\"", "\"", "}", ",", "{", "\"", "f", "u", "l", "l", "P", "a", "t", "h", "\"", ":", "\"", "\"", "}", ",", "{", "\"", "f", "u", "l", "l", "P", "a", "t", "h", "\"", ":", "\"", "\"", "}", ",", "{", "\"", "f", "u", "l", "l", "P", "a", "t", "h", "\"", ":", "\"", "/", "a", "\"", "}", ",", "{", "\"", "f", "u", "l", "l", "P", "a", "t", "h", "\"", ":", "\"", "\"", "}", "]", ",">>)

\* C30: a root-level GET handler and an API-level GET handler built for the
\* same path make the same configuration decision on every argument bag and
\* environment: both fail or both proceed, with the same failure message and
\* the same order of checks (base URL before token); when both proceed their
\* base URLs differ exactly by the appended /api.  Each invocation of a tool
\* of either kind is compared with the other kind of handler run on its
\* path and bag.
C30_RootAndAPIHandlersAgree ==
  \A p \in Procs :
    (Active(p) /\ Tools[call[p].tool].handler \in {"root", "simple"})
      => LET root == createRootGETHandler(Tools[call[p].tool].path, call[p].args)
             api == createSimpleGETHandler(Tools[call[p].tool].path, call[p].args)
         IN /\ root.sent = api.sent
            /\ Sent(p) = root.sent
            /\ ~root.sent
                 => /\ root.result = api.result
                    /\ ret[p].result = root.result
                    /\ root.result =
                         NewToolResultError(IF WantBase(p) = <<>> THEN MsgBaseURLRequired
                                            ELSE MsgTokenRequired)
            /\ root.sent
                 => /\ api.baseURL = root.baseURL \o <<"/", "a", "p", "i">>
                    /\ root.baseURL = WantBase(p)
                    /\ api.token = root.token
                    /\ api.path = root.path
                    /\ api.req.header = root.req.header

\* both environment variables and both arguments empty: the root-level
\* tool fails on the base URL, as the API-level handler does on the same bag
C30_Witness ==
  \E p \in Procs :
    /\ Done(p)
    /\ call[p].tool = "status"
    /\ WantBase(p) = <<>>
    /\ WantToken(p) = <<>>
    /\ ret[p].result = NewToolResultError(MsgBaseURLRequired)
    /\ createSimpleGETHandler(<<"/", "s", "t", "a", "t", "u", "s">>, call[p].args).result = ret[p].result

====
